--------------------------- MODULE ChannelListProofs ---------------------------
(***************************************************************************)
(* Proofs about ChannelList, for any number of nodes and ids: the list is  *)
(* whole, the ids of the registered channels are distinct, N finds the     *)
(* channel of its packet and nobody uses a freed one, with all threads     *)
(* inside at once, until one writes what another is in the middle of       *)
(* using.                                                                  *)
(***************************************************************************)
EXTENDS ChannelList, FiniteSetTheorems, WellFoundedInduction, TLAPS

\* w is the way along the links of l from p to the end, in k steps, without coming by a node twice.
IsWay(w, k, l, p) ==
  /\ w \in [0..k -> Nodes \cup {Nil}]
  /\ w[0] = p /\ w[k] = Nil
  /\ \A i \in 0..(k - 1) : w[i] \in Nodes /\ w[i + 1] = l[w[i]]
  /\ \A i, j \in 0..(k - 1) : w[i] = w[j] => i = j

\* From p the links of l lead through the nodes of S to the end.
Leads(l, p, S) ==
  \E k \in Nat : \E w \in [0..k -> Nodes \cup {Nil}] :
    IsWay(w, k, l, p) /\ S = {w[i] : i \in 0..(k - 1)}

-----------------------------------------------------------------------------
(* The inductive invariant, as long as nothing has raced. *)

Registering == {"start", "scan", "raise", "step", "malloc", "push"}
Searching == {"test", "pop", "first", "find", "cut"}
Unlinked == {"lower", "store", "free"}

\* A only registers; N alone looks up.
Roles ==
  /\ pc["A"] \in {"out", "bump"} \cup Registering
  /\ pc["D"] \notin {"look", "callback"}

\* What is linked is allocated, and what is answered is linked.
Linked == members \subseteq heap /\ owed \subseteq members

\* The channel a thread registers is allocated, not linked yet, and linked to the head.
Fresh == \A t \in Threads : pc[t] = "push" => own[t] \in heap \ members /\ link[own[t]] = head

\* The one that D takes back is owed no answer.
Returned ==
  /\ pc["D"] \in Searching => own["D"] \in members \ owed
  /\ pc["D"] \in Unlinked => own["D"] \in heap \ members

\* Nobody else has it.
Alone ==
  \A t \in Threads :
    own[t] # Nil => /\ own[t] # due /\ \A u \in Threads \ {t} : own[u] # own[t]
                    /\ pc[t] = "push" \/ (t = "D" /\ pc[t] \in Searching \cup Unlinked)

\* The channel whose packet N handles is linked until N unlinks it.
Handling ==
  /\ pc["N"] = "out" => due = Nil
  /\ pc["N"] \in {"look", "callback"} => due \in owed
  /\ pc["N"] \in {"bump"} \cup Registering \cup Searching => due \in members \ owed
  /\ pc["N"] \in Unlinked => due \in heap \ members
  /\ ending = IF pc["N"] = "look" THEN Nil ELSE due

\* The list leads through what is linked.
Whole == Leads(link, head, members)

\* Where the channel to unregister is: at the head, not at the head, behind ptr[t], ahead of it.
Heads ==
  \A t \in Threads : /\ pc[t] = "pop" => head = Target(t)
                     /\ pc[t] = "first" => head # Target(t)
Cuts == \A t \in Threads : pc[t] = "cut" => ptr[t] \in members /\ link[ptr[t]] = Target(t)
Finds ==
  \A t \in Threads :
    pc[t] = "find" => \E S \in SUBSET members : Leads(link, ptr[t], S) /\ Target(t) \in S \ {ptr[t]}

\* What is registered and not below the counter is still ahead of a thread on its way through
\* the list, even if it stands on a channel that has been unlinked.
Ahead ==
  \A t \in Threads :
    pc[t] \in {"scan", "raise", "step"} =>
      /\ ptr[t] # Nil
      /\ \E S \in SUBSET heap : Leads(link, ptr[t], S) /\ \A n \in members \ S : id[n] < next
Above ==
  \A t \in Threads : /\ pc[t] = "raise" => id[ptr[t]] >= next
                     /\ pc[t] = "step" => id[ptr[t]] < next
                     /\ pc[t] \in {"malloc", "push"} => \A n \in members : id[n] < next

\* The channel of the packet is ahead, and the only one there with its id.
Looks ==
  pc["N"] = "look" =>
    \E S \in SUBSET heap : /\ Leads(link, ptr["N"], S)
                           /\ due \in S /\ \A n \in S : id[n] = val["N"] <=> n = due

\* The id of the channel that t registers.
NewId(t) == IF pc[t] = "push" THEN id[own[t]] ELSE val[t]

\* Who has taken an id is alone with the counter once he has counted, and his id is new.
Taken == \A t \in Threads : pc[t] = "bump" => val[t] = next
OneRegisters == \A t, u \in Threads : pc[t] \in Registering /\ pc[u] \in Registering => t = u
NewIds ==
  \A t \in Threads :
    pc[t] \in Registering =>
      /\ NewId(t) < next /\ \A n \in members : id[n] # NewId(t)
      /\ \A u \in Threads : pc[u] \in {"lower", "store"} => id[Target(u)] # NewId(t)

\* An id that is to be given back is nobody else's, and the next one is free.
Distinct == \A m, n \in members : m # n => id[m] # id[n]
GivenBack == \A t \in Threads : pc[t] \in {"lower", "store"} => \A n \in members : id[n] # id[Target(t)]
NextIsFree == (\A t \in Threads : pc[t] \notin Registering) => \A n \in members : id[n] # next

Sound ==
  /\ ~crashed /\ Roles /\ Linked /\ Fresh /\ Returned /\ Alone /\ Handling
  /\ Whole /\ Heads /\ Cuts /\ Finds /\ Ahead /\ Above /\ Looks
  /\ Taken /\ OneRegisters /\ NewIds /\ Distinct /\ GivenBack /\ NextIsFree

IInv == TypeOK /\ (raced \/ Sound)

-----------------------------------------------------------------------------
(* Ways along the list. *)

\* Where nothing leads to, and where the way begins.
LEMMA LeadsNowhere ==
  ASSUME NEW l \in [Nodes -> Nodes \cup {Nil}], NEW p, NEW S
  PROVE  /\ Leads(l, Nil, {})
         /\ Leads(l, p, S) => /\ S \subseteq Nodes
                              /\ p = Nil <=> S = {}
                              /\ p # Nil => p \in S
<1>1. Leads(l, Nil, {})
  <2> DEFINE w == [i \in 0..0 |-> Nil]
  <2>1. 0..(0 - 1) = {}
    OBVIOUS
  <2>2. IsWay(w, 0, l, Nil)
    BY DEF IsWay
  <2>3. {} = {w[i] : i \in 0..(0 - 1)}
    BY <2>1, Zenon
  <2>4. w \in [0..0 -> Nodes \cup {Nil}]
    OBVIOUS
  <2> HIDE DEF w
  <2> QED
    BY <2>2, <2>3, <2>4 DEF Leads
<1>2. ASSUME Leads(l, p, S)
      PROVE  S \subseteq Nodes /\ (p = Nil <=> S = {}) /\ (p # Nil => p \in S)
  <2>0. PICK k \in Nat : \E w \in [0..k -> Nodes \cup {Nil}] :
          IsWay(w, k, l, p) /\ S = {w[i] : i \in 0..(k - 1)}
    BY <1>2 DEF Leads
  <2>1. PICK w \in [0..k -> Nodes \cup {Nil}] : IsWay(w, k, l, p) /\ S = {w[i] : i \in 0..(k - 1)}
    BY <2>0
  <2>2. CASE k = 0
    BY <2>1, <2>2 DEF IsWay
  <2>3. CASE k > 0
    <3>1. 0 \in 0..(k - 1)
      BY <2>3
    <3>2. S \subseteq Nodes
      BY <2>1 DEF IsWay
    <3>3. p \in S
      BY <2>1, <3>1 DEF IsWay
    <3> QED
      BY <3>2, <3>3, ListAssumption
  <2> QED
    BY <2>2, <2>3
<1> QED
  BY <1>1, <1>2

\* A way is not changed by what happens off it.
LEMMA LeadsFrame ==
  ASSUME NEW l \in [Nodes -> Nodes \cup {Nil}], NEW m, NEW p, NEW S,
         Leads(l, p, S), \A n \in S : m[n] = l[n]
  PROVE  Leads(m, p, S)
<1>0. PICK k \in Nat : \E w \in [0..k -> Nodes \cup {Nil}] : IsWay(w, k, l, p) /\ S = {w[i] : i \in 0..(k - 1)}
  BY DEF Leads
<1>1. PICK w \in [0..k -> Nodes \cup {Nil}] : IsWay(w, k, l, p) /\ S = {w[i] : i \in 0..(k - 1)}
  BY <1>0
<1>2. IsWay(w, k, m, p)
  BY <1>1 DEF IsWay
<1> QED
  BY <1>1, <1>2 DEF Leads

\* One step along the way.
LEMMA LeadsOn ==
  ASSUME NEW l \in [Nodes -> Nodes \cup {Nil}], NEW p \in Nodes, NEW S,
         Leads(l, p, S)
  PROVE  Leads(l, l[p], S \ {p})
<1>0. PICK k \in Nat : \E w \in [0..k -> Nodes \cup {Nil}] : IsWay(w, k, l, p) /\ S = {w[i] : i \in 0..(k - 1)}
  BY DEF Leads
<1>1. PICK w \in [0..k -> Nodes \cup {Nil}] : IsWay(w, k, l, p) /\ S = {w[i] : i \in 0..(k - 1)}
  BY <1>0
<1>2. k > 0
  BY <1>1, ListAssumption DEF IsWay
<1> DEFINE v == [i \in 0..(k - 1) |-> w[i + 1]]
<1>3. v \in [0..(k - 1) -> Nodes \cup {Nil}]
  BY <1>2
<1>4. IsWay(v, k - 1, l, l[p])
  BY <1>1, <1>2, <1>3 DEF IsWay
<1>5. S \ {p} = {v[i] : i \in 0..((k - 1) - 1)}
  <2>1. ASSUME NEW i \in 0..((k - 1) - 1) PROVE v[i] \in S \ {p}
    <3>1. i + 1 \in 0..(k - 1) /\ 0 \in 0..(k - 1) /\ i + 1 # 0
      BY <1>2
    <3>2. w[i + 1] # w[0]
      BY <1>1, <3>1 DEF IsWay
    <3> QED
      BY <1>1, <1>2, <3>1, <3>2 DEF IsWay
  <2>2. ASSUME NEW n \in S \ {p} PROVE \E i \in 0..((k - 1) - 1) : n = v[i]
    <3>1. PICK i \in 0..(k - 1) : n = w[i]
      BY <1>1, <2>2
    <3>2. i # 0
      BY <1>1, <2>2, <3>1 DEF IsWay
    <3>3. i - 1 \in 0..((k - 1) - 1) /\ v[i - 1] = w[i]
      BY <1>2, <3>2
    <3> QED
      BY <3>1, <3>3
  <2> HIDE DEF v
  <2> QED
    BY <2>1, <2>2, Zenon
<1>6. k - 1 \in Nat
  BY <1>2
<1> HIDE DEF v
<1> QED
  BY <1>3, <1>4, <1>5, <1>6 DEF Leads

\* A node in front of the way.
LEMMA LeadsPush ==
  ASSUME NEW l \in [Nodes -> Nodes \cup {Nil}], NEW p, NEW S, NEW n \in Nodes \ S,
         Leads(l, p, S), l[n] = p
  PROVE  Leads(l, n, S \cup {n})
<1>0. PICK k \in Nat : \E w \in [0..k -> Nodes \cup {Nil}] : IsWay(w, k, l, p) /\ S = {w[i] : i \in 0..(k - 1)}
  BY DEF Leads
<1>1. PICK w \in [0..k -> Nodes \cup {Nil}] : IsWay(w, k, l, p) /\ S = {w[i] : i \in 0..(k - 1)}
  BY <1>0
<1> DEFINE v == [i \in 0..(k + 1) |-> IF i = 0 THEN n ELSE w[i - 1]]
<1>2. v \in [0..(k + 1) -> Nodes \cup {Nil}]
  OBVIOUS
<1>3. v[0] = n /\ \A i \in 0..k : v[i + 1] = w[i]
  OBVIOUS
<1>4. \A i \in 0..(k - 1) : w[i] # n
  BY <1>1
<1>5. IsWay(v, k + 1, l, n)
  <2>1. v[k + 1] = Nil
    BY <1>1 DEF IsWay
  <2>2. ASSUME NEW i \in 0..((k + 1) - 1) PROVE v[i] \in Nodes /\ v[i + 1] = l[v[i]]
    <3>1. CASE i = 0
      BY <1>1, <1>3, <3>1 DEF IsWay
    <3>2. CASE i # 0
      <4>1. i - 1 \in 0..(k - 1) /\ v[i] = w[i - 1] /\ v[i + 1] = w[(i - 1) + 1]
        BY <3>2
      <4> QED
        BY <1>1, <4>1 DEF IsWay
    <3> QED
      BY <3>1, <3>2
  <2>3. ASSUME NEW i \in 0..((k + 1) - 1), NEW j \in 0..((k + 1) - 1), v[i] = v[j] PROVE i = j
    <3>1. CASE i = 0 /\ j # 0
      <4>1. j - 1 \in 0..(k - 1)
        BY <3>1
      <4> QED
        BY <1>4, <2>3, <3>1, <4>1
    <3>2. CASE i # 0 /\ j = 0
      <4>1. i - 1 \in 0..(k - 1)
        BY <3>2
      <4> QED
        BY <1>4, <2>3, <3>2, <4>1
    <3>3. CASE i # 0 /\ j # 0
      <4>1. i - 1 \in 0..(k - 1) /\ j - 1 \in 0..(k - 1)
        BY <3>3
      <4>2. w[i - 1] = w[j - 1]
        BY <2>3, <3>3
      <4>3. i - 1 = j - 1
        BY <1>1, <4>1, <4>2 DEF IsWay
      <4> QED
        BY <4>3
    <3> QED
      BY <3>1, <3>2, <3>3
  <2> QED
    BY <1>2, <1>3, <2>1, <2>2, <2>3 DEF IsWay
<1>6. S \cup {n} = {v[i] : i \in 0..((k + 1) - 1)}
  <2>1. ASSUME NEW i \in 0..((k + 1) - 1) PROVE v[i] \in S \cup {n}
    BY <1>1
  <2>2. ASSUME NEW x \in S \cup {n} PROVE \E i \in 0..((k + 1) - 1) : x = v[i]
    <3>1. CASE x = n
      BY <1>3, <3>1
    <3>2. CASE x \in S
      <4>1. PICK i \in 0..(k - 1) : x = w[i]
        BY <1>1, <3>2
      <4>2. i + 1 \in 0..((k + 1) - 1) /\ v[i + 1] = w[i]
        OBVIOUS
      <4> QED
        BY <4>1, <4>2
    <3> QED
      BY <3>1, <3>2
  <2> HIDE DEF v
  <2> QED
    BY <2>1, <2>2, Zenon
<1>7. k + 1 \in Nat
  OBVIOUS
<1> HIDE DEF v
<1> QED
  BY <1>2, <1>5, <1>6, <1>7 DEF Leads

\* A node is taken out of the way: the one before it leads past it.
LEMMA LeadsCut ==
  ASSUME NEW l \in [Nodes -> Nodes \cup {Nil}], NEW p, NEW S, NEW n \in S,
         Leads(l, p, S), l[n] # Nil
  PROVE  Leads([l EXCEPT ![n] = l[l[n]]], p, S \ {l[n]})
<1> DEFINE m == [l EXCEPT ![n] = l[l[n]]]
<1>0. PICK k \in Nat : \E w \in [0..k -> Nodes \cup {Nil}] : IsWay(w, k, l, p) /\ S = {w[i] : i \in 0..(k - 1)}
  BY DEF Leads
<1>1. PICK w \in [0..k -> Nodes \cup {Nil}] : IsWay(w, k, l, p) /\ S = {w[i] : i \in 0..(k - 1)}
  BY <1>0
<1>2. PICK c \in 0..(k - 1) : n = w[c]
  BY <1>1
<1>3. c + 1 \in 0..(k - 1) /\ w[c + 1] = l[n] /\ w[c + 2] = l[l[n]] /\ c + 2 \in 0..k /\ n \in Nodes
  <2>1. w[c + 1] = l[n] /\ n \in Nodes
    BY <1>1, <1>2 DEF IsWay
  <2>2. c + 1 # k
    BY <1>1, <2>1 DEF IsWay
  <2>3. c + 1 \in 0..(k - 1)
    BY <2>2
  <2> QED
    BY <1>1, <2>1, <2>3 DEF IsWay
<1> DEFINE v == [i \in 0..(k - 1) |-> IF i <= c THEN w[i] ELSE w[i + 1]]
<1>4. v \in [0..(k - 1) -> Nodes \cup {Nil}] /\ k - 1 \in Nat
  BY <1>3
<1>5. IsWay(v, k - 1, m, p)
  <2>1. v[0] = p /\ v[k - 1] = Nil
    BY <1>1, <1>3 DEF IsWay
  <2>2. ASSUME NEW i \in 0..((k - 1) - 1) PROVE v[i] \in Nodes /\ v[i + 1] = m[v[i]]
    <3>1. CASE i < c
      <4>1. v[i] = w[i] /\ v[i + 1] = w[i + 1] /\ i \in 0..(k - 1)
        BY <3>1
      <4>2. w[i] # n /\ w[i] \in Nodes /\ w[i + 1] = l[w[i]]
        BY <1>1, <1>2, <3>1, <4>1 DEF IsWay
      <4> QED
        BY <4>1, <4>2
    <3>2. CASE i = c
      BY <1>2, <1>3, <3>2
    <3>3. CASE i > c
      <4>1. v[i] = w[i + 1] /\ v[i + 1] = w[i + 2] /\ i + 1 \in 0..(k - 1) /\ i + 1 # c
        BY <3>3
      <4>2. w[i + 1] # n /\ w[i + 1] \in Nodes /\ w[(i + 1) + 1] = l[w[i + 1]]
        BY <1>1, <1>2, <4>1 DEF IsWay
      <4> QED
        BY <4>1, <4>2
    <3> QED
      BY <3>1, <3>2, <3>3
  <2>3. ASSUME NEW i \in 0..((k - 1) - 1), NEW j \in 0..((k - 1) - 1), v[i] = v[j] PROVE i = j
    <3> DEFINE at(x) == IF x <= c THEN x ELSE x + 1
    <3>1. at(i) \in 0..(k - 1) /\ at(j) \in 0..(k - 1) /\ w[at(i)] = w[at(j)]
      BY <2>3
    <3>2. at(i) = at(j)
      BY <1>1, <3>1 DEF IsWay
    <3> QED
      BY <3>2
  <2> QED
    BY <1>4, <2>1, <2>2, <2>3 DEF IsWay
<1>6. S \ {l[n]} = {v[i] : i \in 0..((k - 1) - 1)}
  <2>1. ASSUME NEW i \in 0..((k - 1) - 1) PROVE v[i] \in S \ {l[n]}
    <3> DEFINE a == IF i <= c THEN i ELSE i + 1
    <3>1. a \in 0..(k - 1) /\ a # c + 1 /\ v[i] = w[a]
      OBVIOUS
    <3>2. w[a] # w[c + 1]
      BY <1>1, <1>3, <3>1 DEF IsWay
    <3> QED
      BY <1>1, <1>3, <3>1, <3>2
  <2>2. ASSUME NEW x \in S \ {l[n]} PROVE \E i \in 0..((k - 1) - 1) : x = v[i]
    <3>1. PICK a \in 0..(k - 1) : x = w[a]
      BY <1>1, <2>2
    <3>2. a # c + 1
      BY <1>3, <2>2, <3>1
    <3>3. CASE a <= c
      <4>1. a \in 0..((k - 1) - 1) /\ v[a] = w[a]
        BY <1>3, <3>3
      <4> QED
        BY <3>1, <4>1
    <3>4. CASE a > c + 1
      <4>1. a - 1 \in 0..((k - 1) - 1) /\ v[a - 1] = w[a]
        BY <1>3, <3>4
      <4> QED
        BY <3>1, <4>1
    <3> QED
      BY <3>2, <3>3, <3>4
  <2> HIDE DEF v
  <2> QED
    BY <2>1, <2>2, Zenon
<1> HIDE DEF v, m
<1>7. Leads(m, p, S \ {l[n]})
  BY <1>4, <1>5, <1>6 DEF Leads
<1> QED
  BY <1>7 DEF m

\* On the way every link leads to the way or to the end, and none to where it begins.
LEMMA LeadsInside ==
  ASSUME NEW l \in [Nodes -> Nodes \cup {Nil}], NEW p, NEW S, NEW n \in S,
         Leads(l, p, S)
  PROVE  l[n] \in (S \ {p}) \cup {Nil}
<1>0. PICK k \in Nat : \E w \in [0..k -> Nodes \cup {Nil}] : IsWay(w, k, l, p) /\ S = {w[i] : i \in 0..(k - 1)}
  BY DEF Leads
<1>1. PICK w \in [0..k -> Nodes \cup {Nil}] : IsWay(w, k, l, p) /\ S = {w[i] : i \in 0..(k - 1)}
  BY <1>0
<1>2. PICK c \in 0..(k - 1) : n = w[c]
  BY <1>1
<1>3. w[c + 1] = l[n]
  BY <1>1, <1>2 DEF IsWay
<1>4. CASE c + 1 = k
  BY <1>1, <1>3, <1>4 DEF IsWay
<1>5. CASE c + 1 # k
  <2>1. c + 1 \in 0..(k - 1) /\ 0 \in 0..(k - 1) /\ c + 1 # 0
    BY <1>5
  <2>2. w[c + 1] # w[0]
    BY <1>1, <2>1 DEF IsWay
  <2> QED
    BY <1>1, <1>3, <2>1, <2>2 DEF IsWay
<1> QED
  BY <1>4, <1>5

-----------------------------------------------------------------------------
(* What a thread has in its hands. *)

\* What a thread unregisters is linked until it has unlinked it, what it stands on is not freed.
LEMMA Held ==
  ASSUME TypeOK, Sound, NEW t \in Threads
  PROVE  /\ pc[t] \in Searching => t \in {"D", "N"} /\ Target(t) \in members
         /\ pc[t] \in Unlinked => t \in {"D", "N"} /\ Target(t) \in heap \ members
         /\ pc[t] = "push" => own[t] \in heap \ members
         /\ pc[t] \in {"scan", "raise", "step"} => ptr[t] \in heap
         /\ pc[t] \in {"find", "cut"} => ptr[t] \in members
<1> USE DEF Sound, Roles, Fresh, Returned, Handling, Target, Searching, Unlinked, Registering, Threads
<1>1. /\ pc[t] \in Searching => t \in {"D", "N"} /\ Target(t) \in members
      /\ pc[t] \in Unlinked => t \in {"D", "N"} /\ Target(t) \in heap \ members
      /\ pc[t] = "push" => own[t] \in heap \ members
  OBVIOUS
<1>2. ASSUME pc[t] \in {"scan", "raise", "step"} PROVE ptr[t] \in heap
  <2>1. PICK S \in SUBSET heap : Leads(link, ptr[t], S)
    BY <1>2 DEF Ahead
  <2>2. ptr[t] # Nil
    BY <1>2 DEF Ahead
  <2> QED
    BY <2>1, <2>2, LeadsNowhere DEF TypeOK, ListTypes
<1>3. ASSUME pc[t] = "find" PROVE ptr[t] \in members
  <2>1. PICK S \in SUBSET members : Leads(link, ptr[t], S) /\ Target(t) \in S \ {ptr[t]}
    BY <1>3 DEF Finds
  <2> QED
    BY <2>1, LeadsNowhere DEF TypeOK, ListTypes
<1>4. pc[t] = "cut" => ptr[t] \in members
  BY DEF Cuts
<1> QED
  BY <1>1, <1>2, <1>3, <1>4

-----------------------------------------------------------------------------
(* Types. *)

\* The flags stay Boolean.
LEMMA FlagsKept == FlagTypes /\ Next => FlagTypes'
<1> USE DEF FlagTypes
<1> USE DEF FlagTypes, Another
<1>1. ASSUME FlagTypes, NEW t \in Threads, Take(t) \/ Bump(t) \/ Start(t) \/ Scan(t) PROVE FlagTypes'
  BY <1>1, Zenon DEF Take, Bump, Start, Scan, Count, Use
<1>2. ASSUME FlagTypes, NEW t \in Threads, Raise(t) \/ Step(t) \/ Allocate(t) PROVE FlagTypes'
  BY <1>2, Zenon DEF Raise, Step, Allocate, Count, Use
<1>3. ASSUME FlagTypes, NEW t \in Threads, Push(t) PROVE FlagTypes'
  BY <1>3, Zenon DEF Push
<1>4. ASSUME FlagTypes, NEW t \in Threads, Test(t) \/ Pop(t) \/ First(t) PROVE FlagTypes'
  BY <1>4, Zenon DEF Test, Pop, First, Use
<1>5. ASSUME FlagTypes, NEW t \in Threads, Find(t) \/ Cut(t) PROVE FlagTypes'
  BY <1>5, Zenon DEF Find, Cut, Use
<1>6. ASSUME FlagTypes, NEW t \in Threads, Lower(t) \/ Store(t) \/ Free(t) PROVE FlagTypes'
  BY <1>6, Zenon DEF Lower, Store, Free, Count, Use
<1>7. ASSUME FlagTypes, Packet \/ Look \/ Callback PROVE FlagTypes'
  BY <1>7, Zenon DEF Packet, Look, Callback, Use
<1> QED
  BY <1>1, <1>2, <1>3, <1>4, <1>5, <1>6, <1>7, Zenon DEF Next, Register, Unregister

\* So do the other variables.
LEMMA TypesKept ==
  ASSUME TypeOK, Sound, Next
  PROVE  TypeOK'
<1> DEFINE Types == ListTypes /\ NetTypes /\ ThreadTypes
<1> USE ListAssumption DEF ListTypes, NetTypes, ThreadTypes, list, memory, net, At, Goto, Places, Threads
<1>1. Types
  BY DEF TypeOK
<1>2. ASSUME NEW t \in Threads PROVE Take(t) \/ Bump(t) \/ Start(t) => Types'
  <2>1. Take(t) => Types'
    BY <1>1 DEF Take
  <2>2. Bump(t) => Types'
    BY <1>1 DEF Bump, Count
  <2>3. Start(t) => Types'
    BY <1>1 DEF Start, Visit
  <2> QED
    BY <2>1, <2>2, <2>3
<1>3. ASSUME NEW t \in Threads PROVE Scan(t) \/ Raise(t) \/ Step(t) => Types'
  <2>1. Scan(t) => Types'
    BY <1>1 DEF Scan
  <2>2. Raise(t) => Types'
    <3>1. Raise(t) => ptr[t] \in Nodes
      BY Held DEF Raise, TypeOK
    <3> QED
      BY <1>1, <3>1 DEF Raise, Count
  <2>3. Step(t) => Types'
    <3>1. Step(t) => ptr[t] \in Nodes
      BY Held DEF Step, TypeOK
    <3> QED
      BY <1>1, <3>1 DEF Step, Visit
  <2> QED
    BY <2>1, <2>2, <2>3
<1>4. ASSUME NEW t \in Threads PROVE Allocate(t) \/ Push(t) => Types'
  <2>1. Allocate(t) => Types'
    BY <1>1 DEF Allocate
  <2>2. Push(t) => Types'
    <3>1. Push(t) => own[t] \in Nodes
      BY Held DEF Push, TypeOK
    <3>2. Push(t) => head' = own[t] /\ members' = members \cup {own[t]} /\ UNCHANGED <<link, id, next, heap>>
      BY DEF Push
    <3>3. Push(t) => NetTypes' /\ ThreadTypes'
      BY <1>1, <3>1 DEF Push
    <3> QED
      BY <1>1, <3>1, <3>2, <3>3
  <2> QED
    BY <2>1, <2>2
<1>5. ASSUME NEW t \in Threads PROVE Test(t) \/ Pop(t) \/ First(t) => Types'
  <2>1. Test(t) => Types'
    BY <1>1 DEF Test
  <2>2. Pop(t) => Types'
    <3>1. Pop(t) => Target(t) \in Nodes
      BY Held DEF Pop, Searching, TypeOK
    <3> QED
      BY <1>1, <3>1 DEF Pop
  <2>3. First(t) => Types'
    BY <1>1 DEF First
  <2> QED
    BY <2>1, <2>2, <2>3
<1>6. ASSUME NEW t \in Threads PROVE Find(t) \/ Cut(t) => Types'
  <2>1. Find(t) => Types'
    <3>1. Find(t) => ptr[t] \in Nodes
      BY Held DEF Find, TypeOK
    <3> QED
      BY <1>1, <3>1 DEF Find
  <2>2. Cut(t) => Types'
    <3>1. Cut(t) => Target(t) \in Nodes
      BY Held DEF Cut, Searching, TypeOK
    <3>2. Cut(t) => /\ members' = members \ {Target(t)} /\ link' = [link EXCEPT ![ptr[t]] = link[Target(t)]]
                    /\ UNCHANGED <<next, head, id, heap, owed, due, ending, val, own>>
      BY DEF Cut
    <3>3. Cut(t) => ptr' = [ptr EXCEPT ![t] = Nil] /\ pc' = [pc EXCEPT ![t] = "lower"]
      BY DEF Cut
    <3>4. Cut(t) => ListTypes' /\ NetTypes'
      BY <1>1, <3>1, <3>2
    <3>5. Cut(t) => ThreadTypes'
      BY <1>1, <3>2, <3>3
    <3> QED
      BY <3>4, <3>5
  <2> QED
    BY <2>1, <2>2
<1>7. ASSUME NEW t \in Threads PROVE Lower(t) \/ Store(t) \/ Free(t) => Types'
  <2>1. Lower(t) => Types'
    BY <1>1 DEF Lower
  <2>2. Store(t) => Types'
    <3>1. Store(t) => Target(t) \in Nodes
      BY Held DEF Store, Unlinked, TypeOK
    <3> QED
      BY <1>1, <3>1 DEF Store, Count
  <2>3. Free(t) => Types'
    <3>1. Free(t) => /\ heap' = heap \ {Target(t)} /\ link' = [link EXCEPT ![Target(t)] = Nil]
                     /\ id' = [id EXCEPT ![Target(t)] = 0]
                     /\ UNCHANGED <<next, head, members, owed, ptr, val>>
      BY DEF Free
    <3>2. Free(t) => /\ pc' = [pc EXCEPT ![t] = "out"]
                     /\ own' \in {own, [own EXCEPT ![t] = Nil]}
                     /\ due' \in {due, Nil} /\ ending' \in {ending, Nil}
      BY DEF Free
    <3> QED
      BY <1>1, <3>1, <3>2
  <2> QED
    BY <2>1, <2>2, <2>3
<1>8. Packet \/ Callback => Types'
  BY <1>1 DEF Packet, Callback
<1>9. Look => Types'
  <2>1. Look => ListTypes' /\ NetTypes'
    BY <1>1 DEF Look
  <2>2. Look => /\ pc' \in {pc, [pc EXCEPT !["N"] = "out"], [pc EXCEPT !["N"] = "callback"]}
                /\ val' \in {val, [val EXCEPT !["N"] = 0]} /\ own' = own
    BY DEF Look
  <2>3. Look => ptr' \in {ptr, [ptr EXCEPT !["N"] = Nil], [ptr EXCEPT !["N"] = link[ptr["N"]]]}
    BY DEF Look
  <2>4. Look => ptr["N"] = Nil \/ ptr["N"] \in Nodes
    BY <1>1
  <2>5. Look => ThreadTypes'
    <3>1. CASE Look /\ ptr["N"] = Nil
      BY <1>1, <2>2, <3>1 DEF Look
    <3>2. CASE Look /\ ptr["N"] \in Nodes
      BY <1>1, <2>2, <2>3, <3>2
    <3> QED
      BY <2>4, <3>1, <3>2
  <2> QED
    BY <2>1, <2>5
<1>10. FlagTypes'
  BY FlagsKept DEF TypeOK
<1>11. Types'
  BY <1>2, <1>3, <1>4, <1>5, <1>6, <1>7, <1>8, <1>9, Zenon DEF Next, Register, Unregister
<1> QED
  BY <1>10, <1>11 DEF TypeOK

-----------------------------------------------------------------------------
(* Who is not there, unless it races. *)

\* A write that does not race finds nobody in the middle of using what it writes.
LEMMA Disturbed ==
  ASSUME NEW t \in Threads, ~raced', TypeOK
  PROVE  /\ Push(t) => \A u \in Threads \ {t} : pc[u] \notin {"push", "pop"}
         /\ Pop(t) => \A u \in Threads \ {t} : pc[u] \notin {"push", "pop", "first", "find", "cut"}
         /\ Cut(t) => \A u \in Threads \ {t} : pc[u] \notin {"first", "find", "cut"}
         /\ Free(t) => \A u \in Threads \ {t} : pc[u] \notin {"scan", "raise", "step", "look"}
         /\ Bump(t) \/ Raise(t) \/ Store(t) =>
              \A u \in Threads \ {t} : pc[u] \notin {"bump", "lower", "store"} \cup Registering
<1>1. Push(t) => \A u \in Threads \ {t} : pc[u] \notin {"push", "pop"}
  BY DEF Push, Another, AtHead
<1>2. Pop(t) => \A u \in Threads \ {t} : pc[u] \notin {"push", "pop", "first", "find", "cut"}
  BY DEF Pop, Another, AtHead, Cutting
<1>3. Cut(t) => \A u \in Threads \ {t} : pc[u] \notin {"first", "find", "cut"}
  BY DEF Cut, Another, Cutting
<1>4. Free(t) => \A u \in Threads \ {t} : pc[u] \notin {"scan", "raise", "step", "look"}
  BY DEF Free, Another, Walks
<1>5. Bump(t) \/ Raise(t) \/ Store(t) =>
        \A u \in Threads \ {t} : pc[u] \notin {"bump", "lower", "store"} \cup Registering
  BY DEF Bump, Raise, Store, Count, Another, UsesCounter, Registering
<1> QED
  BY <1>1, <1>2, <1>3, <1>4, <1>5

\* No two threads have one channel in their hands.
LEMMA Apart ==
  ASSUME TypeOK, Sound, NEW t \in Threads, NEW u \in Threads, t # u, pc[t] \in Searching \cup Unlinked
  PROVE  /\ pc[u] = "push" => own[u] # Target(t)
         /\ pc[u] \in Searching \cup Unlinked => Target(u) # Target(t)
<1> USE ListAssumption DEF Sound, Fresh, Returned, Alone, Handling, Linked, Threads, Searching, Unlinked,
        Registering, Target,
        TypeOK, ListTypes
<1>1. t \in {"D", "N"} /\ Target(t) \in Nodes
  BY Held
<1>2. pc[u] \in Searching \cup Unlinked => u \in {"D", "N"} /\ Target(u) \in Nodes
  BY Held
<1>3. pc[u] = "push" => own[u] \in Nodes
  OBVIOUS
<1>4. ending = due \/ pc["N"] = "look"
  OBVIOUS
<1> QED
  BY <1>1, <1>2, <1>3, <1>4

\* The channel that N finds is the one that its packet is meant for.
LEMMA LookFinds ==
  ASSUME TypeOK, Sound, Look
  PROVE  ptr["N"] # Nil /\ (id[ptr["N"]] = val["N"] => ptr["N"] = due)
<1>1. pc["N"] = "look"
  BY DEF Look, At
<1>2. PICK S \in SUBSET heap : /\ Leads(link, ptr["N"], S)
                               /\ due \in S /\ \A n \in S : id[n] = val["N"] <=> n = due
  BY <1>1 DEF Sound, Looks
<1>3. ptr["N"] # Nil /\ ptr["N"] \in S
  BY <1>2, LeadsNowhere DEF TypeOK, ListTypes
<1> QED
  BY <1>2, <1>3

-----------------------------------------------------------------------------
(* The channels in the hands of the threads. *)

\* The threads keep to their roles.
LEMMA RolesKept ==
  ASSUME TypeOK, Sound, Next, ~raced'
  PROVE  Roles'
<1> USE DEF TypeOK, ListTypes, NetTypes, ThreadTypes, Threads, list, memory, net, At, Goto, Target,
            Registering, Searching, Unlinked, Sound, Roles
<1>1. ASSUME NEW t \in Threads, Take(t) PROVE Roles'
  BY <1>1 DEF Take
<1>2. ASSUME NEW t \in Threads, Bump(t) PROVE Roles'
  BY <1>2 DEF Bump, Count
<1>3. ASSUME NEW t \in Threads, Start(t) PROVE Roles'
  BY <1>3 DEF Start, Visit
<1>4. ASSUME NEW t \in Threads, Scan(t) PROVE Roles'
  BY <1>4 DEF Scan
<1>5. ASSUME NEW t \in Threads, Raise(t) PROVE Roles'
  BY <1>5 DEF Raise, Count
<1>6. ASSUME NEW t \in Threads, Step(t) PROVE Roles'
  BY <1>6 DEF Step, Visit
<1>7. ASSUME NEW t \in Threads, Allocate(t) PROVE Roles'
  BY <1>7 DEF Allocate
<1>8. ASSUME NEW t \in Threads, Push(t) PROVE Roles'
  BY <1>8 DEF Push
<1>9. ASSUME NEW t \in Threads, Test(t) PROVE Roles'
  BY <1>9 DEF Test
<1>10. ASSUME NEW t \in Threads, Pop(t) PROVE Roles'
  BY <1>10 DEF Pop
<1>11. ASSUME NEW t \in Threads, First(t) PROVE Roles'
  BY <1>11 DEF First
<1>12. ASSUME NEW t \in Threads, Find(t) PROVE Roles'
  BY <1>12 DEF Find
<1>13. ASSUME NEW t \in Threads, Cut(t) PROVE Roles'
  BY <1>13 DEF Cut
<1>14. ASSUME NEW t \in Threads, Lower(t) PROVE Roles'
  BY <1>14 DEF Lower
<1>15. ASSUME NEW t \in Threads, Store(t) PROVE Roles'
  BY <1>15 DEF Store, Count
<1>16. ASSUME NEW t \in Threads, Free(t) PROVE Roles'
  BY <1>16 DEF Free
<1>17. CASE Packet
  BY <1>17 DEF Packet
<1>18. CASE Look
  BY <1>18 DEF Look
<1>19. CASE Callback
  BY <1>19 DEF Callback
<1> QED
  BY <1>1, <1>2, <1>3, <1>4, <1>5, <1>6, <1>7, <1>8, <1>9, <1>10, <1>11, <1>12, <1>13, <1>14, <1>15, <1>16,
     <1>17, <1>18, <1>19
     DEF Next, Register, Unregister

\* A channel that is unlinked has been answered, one that is freed unlinked.
LEMMA LinkedKept ==
  ASSUME TypeOK, Sound, Next, ~raced'
  PROVE  Linked'
<1> USE DEF TypeOK, ListTypes, NetTypes, ThreadTypes, Threads, list, memory, net, At, Goto, Target,
            Registering, Searching, Unlinked, Sound, Linked, Fresh, Returned, Alone, Handling, Roles
<1>1. ASSUME NEW t \in Threads, Take(t) PROVE Linked'
  BY <1>1 DEF Take
<1>2. ASSUME NEW t \in Threads, Bump(t) PROVE Linked'
  BY <1>2 DEF Bump, Count
<1>3. ASSUME NEW t \in Threads, Start(t) PROVE Linked'
  BY <1>3 DEF Start, Visit
<1>4. ASSUME NEW t \in Threads, Scan(t) PROVE Linked'
  BY <1>4 DEF Scan
<1>5. ASSUME NEW t \in Threads, Raise(t) PROVE Linked'
  BY <1>5 DEF Raise, Count
<1>6. ASSUME NEW t \in Threads, Step(t) PROVE Linked'
  BY <1>6 DEF Step, Visit
<1>7. ASSUME NEW t \in Threads, Allocate(t) PROVE Linked'
  BY <1>7 DEF Allocate
<1>8. ASSUME NEW t \in Threads, Push(t) PROVE Linked'
  BY <1>8 DEF Push
<1>9. ASSUME NEW t \in Threads, Test(t) PROVE Linked'
  BY <1>9 DEF Test
<1>10. ASSUME NEW t \in Threads, Pop(t) PROVE Linked'
  BY <1>10 DEF Pop
<1>11. ASSUME NEW t \in Threads, First(t) PROVE Linked'
  BY <1>11 DEF First
<1>12. ASSUME NEW t \in Threads, Find(t) PROVE Linked'
  BY <1>12 DEF Find
<1>13. ASSUME NEW t \in Threads, Cut(t) PROVE Linked'
  BY <1>13 DEF Cut
<1>14. ASSUME NEW t \in Threads, Lower(t) PROVE Linked'
  BY <1>14 DEF Lower
<1>15. ASSUME NEW t \in Threads, Store(t) PROVE Linked'
  BY <1>15 DEF Store, Count
<1>16. ASSUME NEW t \in Threads, Free(t) PROVE Linked'
  BY <1>16 DEF Free
<1>17. CASE Packet
  BY <1>17 DEF Packet
<1>18. CASE Look
  BY <1>18 DEF Look
<1>19. CASE Callback
  BY <1>19 DEF Callback
<1> QED
  BY <1>1, <1>2, <1>3, <1>4, <1>5, <1>6, <1>7, <1>8, <1>9, <1>10, <1>11, <1>12, <1>13, <1>14, <1>15, <1>16,
     <1>17, <1>18, <1>19
     DEF Next, Register, Unregister

\* The head does not change behind the back of a thread that registers.
LEMMA FreshKept ==
  ASSUME TypeOK, Sound, Next, ~raced'
  PROVE  Fresh'
<1> USE DEF TypeOK, ListTypes, NetTypes, ThreadTypes, Threads, list, memory, net, At, Goto, Target,
            Registering, Searching, Unlinked, Sound, Linked, Fresh, Returned, Alone, Handling, Roles
<1>1. ASSUME NEW t \in Threads, Take(t) PROVE Fresh'
  BY <1>1 DEF Take
<1>2. ASSUME NEW t \in Threads, Bump(t) PROVE Fresh'
  BY <1>2 DEF Bump, Count
<1>3. ASSUME NEW t \in Threads, Start(t) PROVE Fresh'
  BY <1>3 DEF Start, Visit
<1>4. ASSUME NEW t \in Threads, Scan(t) PROVE Fresh'
  BY <1>4 DEF Scan
<1>5. ASSUME NEW t \in Threads, Raise(t) PROVE Fresh'
  BY <1>5 DEF Raise, Count
<1>6. ASSUME NEW t \in Threads, Step(t) PROVE Fresh'
  BY <1>6 DEF Step, Visit
<1>7. ASSUME NEW t \in Threads, Allocate(t) PROVE Fresh'
  BY <1>7 DEF Allocate
<1>8. ASSUME NEW t \in Threads, Push(t) PROVE Fresh'
  <2>1. \A u \in Threads \ {t} : pc[u] # "push"
    BY <1>8, Disturbed
  <2>2. pc'[t] # "push" /\ \A u \in Threads \ {t} : pc'[u] = pc[u]
    BY <1>8 DEF Push
  <2> QED
    BY <2>1, <2>2
<1>9. ASSUME NEW t \in Threads, Test(t) PROVE Fresh'
  BY <1>9 DEF Test
<1>10. ASSUME NEW t \in Threads, Pop(t) PROVE Fresh'
  <2>1. \A u \in Threads \ {t} : pc[u] # "push"
    BY <1>10, Disturbed
  <2>2. pc'[t] # "push" /\ \A u \in Threads \ {t} : pc'[u] = pc[u]
    BY <1>10 DEF Pop
  <2> QED
    BY <2>1, <2>2
<1>11. ASSUME NEW t \in Threads, First(t) PROVE Fresh'
  BY <1>11 DEF First
<1>12. ASSUME NEW t \in Threads, Find(t) PROVE Fresh'
  BY <1>12 DEF Find
<1>13. ASSUME NEW t \in Threads, Cut(t) PROVE Fresh'
  BY <1>13, Held DEF Cut
<1>14. ASSUME NEW t \in Threads, Lower(t) PROVE Fresh'
  BY <1>14 DEF Lower
<1>15. ASSUME NEW t \in Threads, Store(t) PROVE Fresh'
  BY <1>15 DEF Store, Count
<1>16. ASSUME NEW t \in Threads, Free(t) PROVE Fresh'
  <2>1. pc'[t] # "push" /\ \A u \in Threads \ {t} : pc'[u] = pc[u] /\ own'[u] = own[u]
    BY <1>16, Held DEF Free
  <2>2. \A u \in Threads \ {t} : pc[u] = "push" => own[u] # Target(t) /\ own[u] \in Nodes
    BY <1>16, Apart DEF Free
  <2>3. /\ heap' = heap \ {Target(t)} /\ link' = [link EXCEPT ![Target(t)] = Nil]
        /\ head' = head /\ members' = members
    BY <1>16 DEF Free
  <2> QED
    BY <2>1, <2>2, <2>3
<1>17. CASE Packet
  BY <1>17 DEF Packet
<1>18. CASE Look
  BY <1>18 DEF Look
<1>19. CASE Callback
  BY <1>19 DEF Callback
<1> QED
  BY <1>1, <1>2, <1>3, <1>4, <1>5, <1>6, <1>7, <1>8, <1>9, <1>10, <1>11, <1>12, <1>13, <1>14, <1>15, <1>16,
     <1>17, <1>18, <1>19
     DEF Next, Register, Unregister

\* D takes back what it has registered.
LEMMA ReturnedKept ==
  ASSUME TypeOK, Sound, Next, ~raced'
  PROVE  Returned'
<1> USE DEF TypeOK, ListTypes, NetTypes, ThreadTypes, Threads, list, memory, net, At, Goto, Target,
            Registering, Searching, Unlinked, Sound, Linked, Fresh, Returned, Alone, Handling, Roles
<1>1. ASSUME NEW t \in Threads, Take(t) PROVE Returned'
  BY <1>1 DEF Take
<1>2. ASSUME NEW t \in Threads, Bump(t) PROVE Returned'
  BY <1>2 DEF Bump, Count
<1>3. ASSUME NEW t \in Threads, Start(t) PROVE Returned'
  BY <1>3 DEF Start, Visit
<1>4. ASSUME NEW t \in Threads, Scan(t) PROVE Returned'
  BY <1>4 DEF Scan
<1>5. ASSUME NEW t \in Threads, Raise(t) PROVE Returned'
  BY <1>5 DEF Raise, Count
<1>6. ASSUME NEW t \in Threads, Step(t) PROVE Returned'
  BY <1>6 DEF Step, Visit
<1>7. ASSUME NEW t \in Threads, Allocate(t) PROVE Returned'
  BY <1>7 DEF Allocate
<1>8. ASSUME NEW t \in Threads, Push(t) PROVE Returned'
  <2>1. own[t] \in heap \ members /\ own[t] \notin owed
    BY <1>8 DEF Push
  <2>2. heap' = heap /\ members' = members \cup {own[t]} /\ owed' \subseteq owed \cup {own[t]}
    BY <1>8 DEF Push
  <2>3. CASE t = "D"
    <3>1. CASE pc' = [pc EXCEPT ![t] = "test"] /\ owed' = owed /\ own' = own
      BY <2>1, <2>2, <2>3, <3>1
    <3>2. CASE pc' = [pc EXCEPT ![t] = "out"]
      BY <2>3, <3>2
    <3> QED
      BY <1>8, <2>3, <3>1, <3>2 DEF Push
  <2>4. CASE t # "D"
    <3>1. pc'["D"] = pc["D"] /\ own'["D"] = own["D"]
      BY <1>8, <2>4 DEF Push
    <3>2. pc["D"] \in Searching \cup Unlinked => own["D"] # own[t]
      BY <2>1, <2>4, ListAssumption
    <3> QED
      BY <2>2, <3>1, <3>2
  <2> QED
    BY <2>3, <2>4
<1>9. ASSUME NEW t \in Threads, Test(t) PROVE Returned'
  BY <1>9 DEF Test
<1>10. ASSUME NEW t \in Threads, Pop(t) PROVE Returned'
  <2>1. /\ members' = members \ {Target(t)} /\ heap' = heap /\ owed' = owed /\ own' = own
        /\ pc' = [pc EXCEPT ![t] = "lower"] /\ pc[t] = "pop"
    BY <1>10 DEF Pop
  <2>2. t \in {"D", "N"} /\ Target(t) \in members
    BY <2>1, Held
  <2>3. t = "N" /\ pc["D"] \in Searching \cup Unlinked => own["D"] # Target(t)
    BY <2>1, Apart
  <2> QED
    BY <2>1, <2>2, <2>3
<1>11. ASSUME NEW t \in Threads, First(t) PROVE Returned'
  BY <1>11 DEF First
<1>12. ASSUME NEW t \in Threads, Find(t) PROVE Returned'
  BY <1>12 DEF Find
<1>13. ASSUME NEW t \in Threads, Cut(t) PROVE Returned'
  <2>1. /\ members' = members \ {Target(t)} /\ heap' = heap /\ owed' = owed /\ own' = own
        /\ pc' = [pc EXCEPT ![t] = "lower"] /\ pc[t] = "cut"
    BY <1>13 DEF Cut
  <2>2. t \in {"D", "N"} /\ Target(t) \in members
    BY <2>1, Held
  <2>3. t = "N" /\ pc["D"] \in Searching \cup Unlinked => own["D"] # Target(t)
    BY <2>1, Apart
  <2> QED
    BY <2>1, <2>2, <2>3
<1>14. ASSUME NEW t \in Threads, Lower(t) PROVE Returned'
  BY <1>14 DEF Lower
<1>15. ASSUME NEW t \in Threads, Store(t) PROVE Returned'
  BY <1>15 DEF Store, Count
<1>16. ASSUME NEW t \in Threads, Free(t) PROVE Returned'
  <2>1. /\ members' = members /\ heap' = heap \ {Target(t)} /\ owed' = owed
        /\ pc' = [pc EXCEPT ![t] = "out"] /\ pc[t] = "free"
    BY <1>16 DEF Free
  <2>2. t \in {"D", "N"} /\ Target(t) \notin members
    BY <2>1, Held
  <2>3. t = "N" => own' = own /\ (pc["D"] \in Searching \cup Unlinked => own["D"] # Target(t))
    BY <1>16, <2>1, Apart DEF Free
  <2> QED
    BY <2>1, <2>2, <2>3
<1>17. CASE Packet
  BY <1>17 DEF Packet
<1>18. CASE Look
  BY <1>18 DEF Look
<1>19. CASE Callback
  BY <1>19 DEF Callback
<1> QED
  BY <1>1, <1>2, <1>3, <1>4, <1>5, <1>6, <1>7, <1>8, <1>9, <1>10, <1>11, <1>12, <1>13, <1>14, <1>15, <1>16,
     <1>17, <1>18, <1>19
     DEF Next, Register, Unregister

\* What malloc returns is in nobody's hands.
LEMMA AloneKept ==
  ASSUME TypeOK, Sound, Next, ~raced'
  PROVE  Alone'
<1> USE DEF TypeOK, ListTypes, NetTypes, ThreadTypes, Threads, list, memory, net, At, Goto, Target,
            Registering, Searching, Unlinked, Sound, Linked, Fresh, Returned, Alone, Handling, Roles
<1>1. ASSUME NEW t \in Threads, Take(t) PROVE Alone'
  BY <1>1 DEF Take
<1>2. ASSUME NEW t \in Threads, Bump(t) PROVE Alone'
  BY <1>2 DEF Bump, Count
<1>3. ASSUME NEW t \in Threads, Start(t) PROVE Alone'
  BY <1>3 DEF Start, Visit
<1>4. ASSUME NEW t \in Threads, Scan(t) PROVE Alone'
  BY <1>4 DEF Scan
<1>5. ASSUME NEW t \in Threads, Raise(t) PROVE Alone'
  BY <1>5 DEF Raise, Count
<1>6. ASSUME NEW t \in Threads, Step(t) PROVE Alone'
  BY <1>6 DEF Step, Visit
<1>7. ASSUME NEW t \in Threads, Allocate(t) PROVE Alone'
  <2>1. PICK n \in Nodes \ heap : own' = [own EXCEPT ![t] = n]
    BY <1>7 DEF Allocate
  <2>2. due' = due /\ pc' = [pc EXCEPT ![t] = "push"]
    BY <1>7 DEF Allocate
  <2>3. due = Nil \/ due \in heap
    BY DEF Places
  <2>4. \A u \in Threads \ {t} : own[u] # Nil => own[u] \in heap
    OBVIOUS
  <2>5. n # due /\ n # Nil /\ \A u \in Threads \ {t} : own[u] # n
    BY <2>3, <2>4, ListAssumption
  <2> QED
    BY <2>1, <2>2, <2>5
<1>8. ASSUME NEW t \in Threads, Push(t) PROVE Alone'
  BY <1>8 DEF Push
<1>9. ASSUME NEW t \in Threads, Test(t) PROVE Alone'
  BY <1>9 DEF Test
<1>10. ASSUME NEW t \in Threads, Pop(t) PROVE Alone'
  BY <1>10 DEF Pop
<1>11. ASSUME NEW t \in Threads, First(t) PROVE Alone'
  BY <1>11 DEF First
<1>12. ASSUME NEW t \in Threads, Find(t) PROVE Alone'
  BY <1>12 DEF Find
<1>13. ASSUME NEW t \in Threads, Cut(t) PROVE Alone'
  BY <1>13 DEF Cut
<1>14. ASSUME NEW t \in Threads, Lower(t) PROVE Alone'
  BY <1>14 DEF Lower
<1>15. ASSUME NEW t \in Threads, Store(t) PROVE Alone'
  BY <1>15 DEF Store, Count
<1>16. ASSUME NEW t \in Threads, Free(t) PROVE Alone'
  BY <1>16 DEF Free
<1>17. CASE Packet
  BY <1>17 DEF Packet
<1>18. CASE Look
  BY <1>18 DEF Look
<1>19. CASE Callback
  BY <1>19 DEF Callback
<1> QED
  BY <1>1, <1>2, <1>3, <1>4, <1>5, <1>6, <1>7, <1>8, <1>9, <1>10, <1>11, <1>12, <1>13, <1>14, <1>15, <1>16,
     <1>17, <1>18, <1>19
     DEF Next, Register, Unregister

\* The channel whose packet N handles is unlinked and freed by N alone.
LEMMA HandlingKept ==
  ASSUME TypeOK, Sound, Next, ~raced'
  PROVE  Handling'
<1> USE DEF TypeOK, ListTypes, NetTypes, ThreadTypes, Threads, list, memory, net, At, Goto, Target,
            Registering, Searching, Unlinked, Sound, Linked, Fresh, Returned, Alone, Handling, Roles
<1>1. ASSUME NEW t \in Threads, Take(t) PROVE Handling'
  BY <1>1 DEF Take
<1>2. ASSUME NEW t \in Threads, Bump(t) PROVE Handling'
  BY <1>2 DEF Bump, Count
<1>3. ASSUME NEW t \in Threads, Start(t) PROVE Handling'
  BY <1>3 DEF Start, Visit
<1>4. ASSUME NEW t \in Threads, Scan(t) PROVE Handling'
  BY <1>4 DEF Scan
<1>5. ASSUME NEW t \in Threads, Raise(t) PROVE Handling'
  BY <1>5 DEF Raise, Count
<1>6. ASSUME NEW t \in Threads, Step(t) PROVE Handling'
  BY <1>6 DEF Step, Visit
<1>7. ASSUME NEW t \in Threads, Allocate(t) PROVE Handling'
  BY <1>7 DEF Allocate
<1>8. ASSUME NEW t \in Threads, Push(t) PROVE Handling'
  <2>1. own[t] \in heap \ members /\ own[t] # due
    BY <1>8, ListAssumption DEF Push
  <2>2. /\ members' = members \cup {own[t]} /\ heap' = heap /\ owed' \in {owed, owed \cup {own[t]}}
        /\ due' = due /\ ending' = ending
    BY <1>8 DEF Push
  <2>3. pc'["N"] = pc["N"] \/ (t = "N" /\ pc["N"] = "push" /\ pc'["N"] = "test")
    <3>1. CASE t = "N"
      BY <1>8, <3>1 DEF Push
    <3>2. CASE t # "N"
      <4>1. \A u \in Threads \ {t} : pc'[u] = pc[u]
        BY <1>8 DEF Push
      <4> QED
        BY <3>2, <4>1
    <3> QED
      BY <3>1, <3>2
  <2> QED
    BY <2>1, <2>2, <2>3
<1>9. ASSUME NEW t \in Threads, Test(t) PROVE Handling'
  BY <1>9 DEF Test
<1>10. ASSUME NEW t \in Threads, Pop(t) PROVE Handling'
  <2>1. /\ members' = members \ {Target(t)} /\ heap' = heap /\ owed' = owed /\ due' = due /\ ending' = ending
        /\ pc' = [pc EXCEPT ![t] = "lower"] /\ pc[t] = "pop"
    BY <1>10 DEF Pop
  <2>2. t \in {"D", "N"} /\ Target(t) \in members
    BY <2>1, Held
  <2>3. t = "D" => Target(t) # due
    BY <2>1, <2>2, ListAssumption
  <2> QED
    BY <2>1, <2>2, <2>3
<1>11. ASSUME NEW t \in Threads, First(t) PROVE Handling'
  BY <1>11 DEF First
<1>12. ASSUME NEW t \in Threads, Find(t) PROVE Handling'
  BY <1>12 DEF Find
<1>13. ASSUME NEW t \in Threads, Cut(t) PROVE Handling'
  <2>1. /\ members' = members \ {Target(t)} /\ heap' = heap /\ owed' = owed /\ due' = due /\ ending' = ending
        /\ pc' = [pc EXCEPT ![t] = "lower"] /\ pc[t] = "cut"
    BY <1>13 DEF Cut
  <2>2. t \in {"D", "N"} /\ Target(t) \in members
    BY <2>1, Held
  <2>3. t = "D" => Target(t) # due
    BY <2>1, <2>2, ListAssumption
  <2> QED
    BY <2>1, <2>2, <2>3
<1>14. ASSUME NEW t \in Threads, Lower(t) PROVE Handling'
  BY <1>14 DEF Lower
<1>15. ASSUME NEW t \in Threads, Store(t) PROVE Handling'
  BY <1>15 DEF Store, Count
<1>16. ASSUME NEW t \in Threads, Free(t) PROVE Handling'
  <2>1. /\ members' = members /\ heap' = heap \ {Target(t)} /\ owed' = owed
        /\ pc' = [pc EXCEPT ![t] = "out"] /\ pc[t] = "free"
    BY <1>16 DEF Free
  <2>2. t \in {"D", "N"} /\ Target(t) \in heap
    BY <2>1, Held
  <2>3. CASE t = "N"
    <3>1. due' = Nil /\ ending' = Nil
      BY <1>16, <2>3 DEF Free
    <3> QED
      BY <2>1, <2>3, <3>1
  <2>4. CASE t = "D"
    <3>1. due' = due /\ ending' = ending
      BY <1>16, <2>4 DEF Free
    <3>2. own["D"] # due
      BY <2>1, <2>2, <2>4, ListAssumption
    <3> QED
      BY <2>1, <2>4, <3>1, <3>2
  <2> QED
    BY <2>2, <2>3, <2>4
<1>17. CASE Packet
  BY <1>17 DEF Packet
<1>18. CASE Look
  <2>1. /\ UNCHANGED <<members, heap>> /\ pc["N"] = "look"
        /\ \/ pc' = [pc EXCEPT !["N"] = "out"] /\ due' = Nil /\ UNCHANGED ending
           \/ pc' = pc /\ UNCHANGED <<due, owed, ending>>
           \/ pc' = [pc EXCEPT !["N"] = "callback"] /\ ending' = ptr["N"] /\ UNCHANGED <<due, owed>>
              /\ id[ptr["N"]] = val["N"]
    BY <1>18 DEF Look
  <2>2. pc'["N"] = "callback" => ending' = due
    BY <1>18, <2>1, LookFinds
  <2> QED
    BY <2>1, <2>2
<1>19. CASE Callback
  BY <1>19 DEF Callback
<1> QED
  BY <1>1, <1>2, <1>3, <1>4, <1>5, <1>6, <1>7, <1>8, <1>9, <1>10, <1>11, <1>12, <1>13, <1>14, <1>15, <1>16,
     <1>17, <1>18, <1>19
     DEF Next, Register, Unregister


-----------------------------------------------------------------------------
(* The list. *)

\* The list loses nothing.
LEMMA WholeKept ==
  ASSUME TypeOK, Sound, Next, ~raced'
  PROVE  Whole'
<1> USE DEF TypeOK, ListTypes, NetTypes, ThreadTypes, Threads, list, memory, net, At, Goto, Target,
            Registering, Searching, Unlinked, Sound, Whole, Fresh, Linked
<1>1. ASSUME NEW t \in Threads, Take(t) PROVE Whole'
  BY <1>1 DEF Take
<1>2. ASSUME NEW t \in Threads, Bump(t) PROVE Whole'
  BY <1>2 DEF Bump, Count
<1>3. ASSUME NEW t \in Threads, Start(t) PROVE Whole'
  BY <1>3 DEF Start, Visit
<1>4. ASSUME NEW t \in Threads, Scan(t) PROVE Whole'
  BY <1>4 DEF Scan
<1>5. ASSUME NEW t \in Threads, Raise(t) PROVE Whole'
  BY <1>5 DEF Raise, Count
<1>6. ASSUME NEW t \in Threads, Step(t) PROVE Whole'
  BY <1>6 DEF Step, Visit
<1>7. ASSUME NEW t \in Threads, Allocate(t) PROVE Whole'
  <2>1. PICK n \in Nodes \ heap : link' = [link EXCEPT ![n] = head]
    BY <1>7 DEF Allocate
  <2>2. \A m \in members : link'[m] = link[m]
    BY <2>1
  <2>3. head' = head /\ members' = members
    BY <1>7 DEF Allocate
  <2> QED
    BY <2>2, <2>3, LeadsFrame
<1>8. ASSUME NEW t \in Threads, Push(t) PROVE Whole'
  <2>1. own[t] \in Nodes \ members /\ link[own[t]] = head
    BY <1>8 DEF Push
  <2>2. Leads(link, own[t], members \cup {own[t]})
    BY <2>1, LeadsPush
  <2> QED
    BY <1>8, <2>2 DEF Push
<1>9. ASSUME NEW t \in Threads, Test(t) PROVE Whole'
  BY <1>9 DEF Test
<1>10. ASSUME NEW t \in Threads, Pop(t) PROVE Whole'
  <2>1. head = Target(t) /\ head \in Nodes
    BY <1>10, Held DEF Pop, Heads
  <2>2. Leads(link, link[head], members \ {head})
    BY <2>1, LeadsOn
  <2>3. head' = link[head] /\ members' = members \ {head} /\ link' = link
    BY <1>10, <2>1 DEF Pop
  <2> QED
    BY <2>2, <2>3
<1>11. ASSUME NEW t \in Threads, First(t) PROVE Whole'
  BY <1>11 DEF First
<1>12. ASSUME NEW t \in Threads, Find(t) PROVE Whole'
  BY <1>12 DEF Find
<1>13. ASSUME NEW t \in Threads, Cut(t) PROVE Whole'
  <2>1. ptr[t] \in members /\ link[ptr[t]] = Target(t) /\ Target(t) # Nil
    BY <1>13, Held, ListAssumption DEF Cut, Cuts
  <2>2. Leads([link EXCEPT ![ptr[t]] = link[link[ptr[t]]]], head, members \ {link[ptr[t]]})
    BY <2>1, LeadsCut
  <2>3. head' = head /\ members' = members \ {Target(t)} /\ link' = [link EXCEPT ![ptr[t]] = link[Target(t)]]
    BY <1>13 DEF Cut
  <2> QED
    BY <2>1, <2>2, <2>3
<1>14. ASSUME NEW t \in Threads, Lower(t) PROVE Whole'
  BY <1>14 DEF Lower
<1>15. ASSUME NEW t \in Threads, Store(t) PROVE Whole'
  BY <1>15 DEF Store, Count
<1>16. ASSUME NEW t \in Threads, Free(t) PROVE Whole'
  <2>1. Target(t) \in Nodes \ members
    BY <1>16, Held DEF Free
  <2>2. head' = head /\ members' = members /\ link' = [link EXCEPT ![Target(t)] = Nil]
    BY <1>16 DEF Free
  <2>3. \A m \in members : link'[m] = link[m]
    BY <2>1, <2>2
  <2> QED
    BY <2>2, <2>3, LeadsFrame
<1>17. CASE Packet
  BY <1>17 DEF Packet
<1>18. CASE Look
  BY <1>18 DEF Look
<1>19. CASE Callback
  BY <1>19 DEF Callback
<1> QED
  BY <1>1, <1>2, <1>3, <1>4, <1>5, <1>6, <1>7, <1>8, <1>9, <1>10, <1>11, <1>12, <1>13, <1>14, <1>15, <1>16,
     <1>17, <1>18, <1>19
     DEF Next, Register, Unregister

\* The head is not changed behind the back of a thread that unregisters.
LEMMA HeadsKept ==
  ASSUME TypeOK, Sound, Next, ~raced'
  PROVE  Heads'
<1> USE DEF TypeOK, ListTypes, NetTypes, ThreadTypes, Threads, list, memory, net, At, Goto, Target,
            Registering, Searching, Unlinked, Sound, Heads, Roles
<1>1. ASSUME NEW t \in Threads, Take(t) PROVE Heads'
  BY <1>1 DEF Take
<1>2. ASSUME NEW t \in Threads, Bump(t) PROVE Heads'
  BY <1>2 DEF Bump, Count
<1>3. ASSUME NEW t \in Threads, Start(t) PROVE Heads'
  BY <1>3 DEF Start, Visit
<1>4. ASSUME NEW t \in Threads, Scan(t) PROVE Heads'
  BY <1>4 DEF Scan
<1>5. ASSUME NEW t \in Threads, Raise(t) PROVE Heads'
  BY <1>5 DEF Raise, Count
<1>6. ASSUME NEW t \in Threads, Step(t) PROVE Heads'
  BY <1>6 DEF Step, Visit
<1>7. ASSUME NEW t \in Threads, Allocate(t) PROVE Heads'
  BY <1>7 DEF Allocate
<1>8. ASSUME NEW t \in Threads, Push(t) PROVE Heads'
  <2>1. \A u \in Threads \ {t} : pc[u] # "pop" /\ (pc[u] = "first" => Target(u) # own[t])
    BY <1>8, Disturbed, Held DEF Push
  <2>2. /\ \A u \in Threads \ {t} : pc'[u] = pc[u] /\ own'[u] = own[u]
        /\ pc'[t] \notin {"pop", "first"} /\ head' = own[t] /\ ending' = ending
    BY <1>8 DEF Push
  <2> QED
    BY <2>1, <2>2
<1>9. ASSUME NEW t \in Threads, Test(t) PROVE Heads'
  BY <1>9 DEF Test
<1>10. ASSUME NEW t \in Threads, Pop(t) PROVE Heads'
  <2>1. \A u \in Threads \ {t} : pc[u] \notin {"pop", "first"}
    BY <1>10, Disturbed
  <2>2. \A u \in Threads \ {t} : pc'[u] = pc[u] /\ own'[u] = own[u]
    BY <1>10 DEF Pop
  <2>3. pc'[t] \notin {"pop", "first"}
    BY <1>10 DEF Pop
  <2> QED
    BY <2>1, <2>2, <2>3
<1>11. ASSUME NEW t \in Threads, First(t) PROVE Heads'
  BY <1>11 DEF First
<1>12. ASSUME NEW t \in Threads, Find(t) PROVE Heads'
  BY <1>12 DEF Find
<1>13. ASSUME NEW t \in Threads, Cut(t) PROVE Heads'
  BY <1>13 DEF Cut
<1>14. ASSUME NEW t \in Threads, Lower(t) PROVE Heads'
  BY <1>14 DEF Lower
<1>15. ASSUME NEW t \in Threads, Store(t) PROVE Heads'
  BY <1>15 DEF Store, Count
<1>16. ASSUME NEW t \in Threads, Free(t) PROVE Heads'
  <2>1. /\ \A u \in Threads \ {t} : pc'[u] = pc[u] /\ Target(u)' = Target(u)
        /\ pc'[t] \notin {"pop", "first"} /\ head' = head
    BY <1>16, Held DEF Free
  <2> QED
    BY <2>1
<1>17. CASE Packet
  BY <1>17 DEF Packet
<1>18. CASE Look
  BY <1>18 DEF Look
<1>19. CASE Callback
  BY <1>19 DEF Callback
<1> QED
  BY <1>1, <1>2, <1>3, <1>4, <1>5, <1>6, <1>7, <1>8, <1>9, <1>10, <1>11, <1>12, <1>13, <1>14, <1>15, <1>16,
     <1>17, <1>18, <1>19
     DEF Next, Register, Unregister

\* Nor is the link that leads to the channel.
LEMMA CutsKept ==
  ASSUME TypeOK, Sound, Next, ~raced'
  PROVE  Cuts'
<1> USE DEF TypeOK, ListTypes, NetTypes, ThreadTypes, Threads, list, memory, net, At, Goto, Target,
            Registering, Searching, Unlinked, Sound, Cuts, Roles, Linked
<1>1. ASSUME NEW t \in Threads, Take(t) PROVE Cuts'
  BY <1>1 DEF Take
<1>2. ASSUME NEW t \in Threads, Bump(t) PROVE Cuts'
  BY <1>2 DEF Bump, Count
<1>3. ASSUME NEW t \in Threads, Start(t) PROVE Cuts'
  BY <1>3 DEF Start, Visit
<1>4. ASSUME NEW t \in Threads, Scan(t) PROVE Cuts'
  BY <1>4 DEF Scan
<1>5. ASSUME NEW t \in Threads, Raise(t) PROVE Cuts'
  BY <1>5 DEF Raise, Count
<1>6. ASSUME NEW t \in Threads, Step(t) PROVE Cuts'
  BY <1>6 DEF Step, Visit
<1>7. ASSUME NEW t \in Threads, Allocate(t) PROVE Cuts'
  BY <1>7 DEF Allocate
<1>8. ASSUME NEW t \in Threads, Push(t) PROVE Cuts'
  <2>1. /\ \A u \in Threads \ {t} : pc'[u] = pc[u] /\ own'[u] = own[u]
        /\ pc'[t] # "cut" /\ members \subseteq members' /\ link' = link /\ ending' = ending /\ ptr' = ptr
    BY <1>8 DEF Push
  <2> QED
    BY <2>1
<1>9. ASSUME NEW t \in Threads, Test(t) PROVE Cuts'
  BY <1>9 DEF Test
<1>10. ASSUME NEW t \in Threads, Pop(t) PROVE Cuts'
  <2>1. \A u \in Threads \ {t} : pc[u] \notin {"cut"}
    BY <1>10, Disturbed
  <2>2. \A u \in Threads \ {t} : pc'[u] = pc[u] /\ own'[u] = own[u]
    BY <1>10 DEF Pop
  <2>3. pc'[t] \notin {"cut"}
    BY <1>10 DEF Pop
  <2> QED
    BY <2>1, <2>2, <2>3
<1>11. ASSUME NEW t \in Threads, First(t) PROVE Cuts'
  BY <1>11 DEF First
<1>12. ASSUME NEW t \in Threads, Find(t) PROVE Cuts'
  BY <1>12, Held DEF Find
<1>13. ASSUME NEW t \in Threads, Cut(t) PROVE Cuts'
  <2>1. \A u \in Threads \ {t} : pc[u] \notin {"cut"}
    BY <1>13, Disturbed
  <2>2. \A u \in Threads \ {t} : pc'[u] = pc[u] /\ own'[u] = own[u]
    BY <1>13 DEF Cut
  <2>3. pc'[t] \notin {"cut"}
    BY <1>13 DEF Cut
  <2> QED
    BY <2>1, <2>2, <2>3
<1>14. ASSUME NEW t \in Threads, Lower(t) PROVE Cuts'
  BY <1>14 DEF Lower
<1>15. ASSUME NEW t \in Threads, Store(t) PROVE Cuts'
  BY <1>15 DEF Store, Count
<1>16. ASSUME NEW t \in Threads, Free(t) PROVE Cuts'
  <2>1. Target(t) \in Nodes \ members
    BY <1>16, Held DEF Free
  <2>2. /\ \A u \in Threads \ {t} : pc'[u] = pc[u] /\ Target(u)' = Target(u)
        /\ pc'[t] # "cut" /\ members' = members /\ link' = [link EXCEPT ![Target(t)] = Nil] /\ ptr' = ptr
    BY <1>16, Held DEF Free
  <2> QED
    BY <2>1, <2>2
<1>17. CASE Packet
  BY <1>17 DEF Packet
<1>18. CASE Look
  BY <1>18 DEF Look
<1>19. CASE Callback
  BY <1>19 DEF Callback
<1> QED
  BY <1>1, <1>2, <1>3, <1>4, <1>5, <1>6, <1>7, <1>8, <1>9, <1>10, <1>11, <1>12, <1>13, <1>14, <1>15, <1>16,
     <1>17, <1>18, <1>19
     DEF Next, Register, Unregister

\* The channel stays ahead of the thread that looks for it.
LEMMA FindsKept ==
  ASSUME TypeOK, Sound, Next, ~raced'
  PROVE  Finds'
<1> USE DEF TypeOK, ListTypes, NetTypes, ThreadTypes, Threads, list, memory, net, At, Goto, Target,
            Registering, Searching, Unlinked, Sound, Finds, Roles, Linked
<1>1. ASSUME NEW t \in Threads, Take(t) PROVE Finds'
  BY <1>1 DEF Take
<1>2. ASSUME NEW t \in Threads, Bump(t) PROVE Finds'
  BY <1>2 DEF Bump, Count
<1>3. ASSUME NEW t \in Threads, Start(t) PROVE Finds'
  BY <1>3 DEF Start, Visit
<1>4. ASSUME NEW t \in Threads, Scan(t) PROVE Finds'
  BY <1>4 DEF Scan
<1>5. ASSUME NEW t \in Threads, Raise(t) PROVE Finds'
  BY <1>5 DEF Raise, Count
<1>6. ASSUME NEW t \in Threads, Step(t) PROVE Finds'
  BY <1>6 DEF Step, Visit
<1>7. ASSUME NEW t \in Threads, Allocate(t) PROVE Finds'
  <2>1. PICK n \in Nodes \ heap : link' = [link EXCEPT ![n] = head]
    BY <1>7 DEF Allocate
  <2>2. \A m \in members : link'[m] = link[m]
    BY <2>1
  <2>3. \A u \in Threads \ {t} : pc'[u] = pc[u] /\ Target(u)' = Target(u)
    BY <1>7 DEF Allocate
  <2>4. pc'[t] # "find" /\ ptr' = ptr /\ members' = members
    BY <1>7 DEF Allocate
  <2>5. \A p, S : S \subseteq members /\ Leads(link, p, S) => Leads(link', p, S)
    BY <2>2, LeadsFrame
  <2> QED
    BY <2>3, <2>4, <2>5
<1>8. ASSUME NEW t \in Threads, Push(t) PROVE Finds'
  <2>1. /\ \A u \in Threads \ {t} : pc'[u] = pc[u] /\ own'[u] = own[u]
        /\ pc'[t] # "find" /\ members \subseteq members' /\ link' = link /\ ending' = ending /\ ptr' = ptr
    BY <1>8 DEF Push
  <2> QED
    BY <2>1
<1>9. ASSUME NEW t \in Threads, Test(t) PROVE Finds'
  BY <1>9 DEF Test
<1>10. ASSUME NEW t \in Threads, Pop(t) PROVE Finds'
  <2>1. \A u \in Threads \ {t} : pc[u] \notin {"find"}
    BY <1>10, Disturbed
  <2>2. \A u \in Threads \ {t} : pc'[u] = pc[u] /\ own'[u] = own[u]
    BY <1>10 DEF Pop
  <2>3. pc'[t] \notin {"find"}
    BY <1>10 DEF Pop
  <2> QED
    BY <2>1, <2>2, <2>3
<1>11. ASSUME NEW t \in Threads, First(t) PROVE Finds'
  <2>1. /\ pc[t] = "first" /\ pc' = [pc EXCEPT ![t] = "find"] /\ ptr' = [ptr EXCEPT ![t] = head]
        /\ link' = link /\ members' = members /\ own' = own /\ ending' = ending
    BY <1>11 DEF First
  <2>2. Target(t) \in members \ {head} /\ Leads(link, head, members)
    BY <2>1, Held DEF Heads, Whole
  <2> QED
    BY <2>1, <2>2
<1>12. ASSUME NEW t \in Threads, Find(t) PROVE Finds'
  <2>1. /\ pc[t] = "find" /\ link' = link /\ members' = members /\ own' = own /\ ending' = ending
        /\ \/ pc' = [pc EXCEPT ![t] = "cut"] /\ ptr' = ptr
           \/ pc' = pc /\ ptr' = [ptr EXCEPT ![t] = link[ptr[t]]] /\ link[ptr[t]] # Target(t)
    BY <1>12 DEF Find
  <2>2. PICK S \in SUBSET members : Leads(link, ptr[t], S) /\ Target(t) \in S \ {ptr[t]}
    BY <2>1
  <2>3. Leads(link, link[ptr[t]], S \ {ptr[t]})
    BY <2>1, <2>2, Held, LeadsOn
  <2>4. S \ {ptr[t]} \in SUBSET members
    BY <2>2
  <2> QED
    BY <2>1, <2>2, <2>3, <2>4
<1>13. ASSUME NEW t \in Threads, Cut(t) PROVE Finds'
  <2>1. \A u \in Threads \ {t} : pc[u] \notin {"find"}
    BY <1>13, Disturbed
  <2>2. \A u \in Threads \ {t} : pc'[u] = pc[u] /\ own'[u] = own[u]
    BY <1>13 DEF Cut
  <2>3. pc'[t] \notin {"find"}
    BY <1>13 DEF Cut
  <2> QED
    BY <2>1, <2>2, <2>3
<1>14. ASSUME NEW t \in Threads, Lower(t) PROVE Finds'
  BY <1>14 DEF Lower
<1>15. ASSUME NEW t \in Threads, Store(t) PROVE Finds'
  BY <1>15 DEF Store, Count
<1>16. ASSUME NEW t \in Threads, Free(t) PROVE Finds'
  <2>1. Target(t) \in Nodes \ members
    BY <1>16, Held DEF Free
  <2>2. link' = [link EXCEPT ![Target(t)] = Nil] /\ members' = members /\ ptr' = ptr /\ pc'[t] # "find"
    BY <1>16 DEF Free
  <2>3. \A u \in Threads \ {t} : pc'[u] = pc[u] /\ Target(u)' = Target(u)
    BY <1>16, Held DEF Free
  <2>4. \A m \in members : link'[m] = link[m]
    BY <2>1, <2>2
  <2>5. \A p, S : S \subseteq members /\ Leads(link, p, S) => Leads(link', p, S)
    BY <2>4, LeadsFrame
  <2> QED
    BY <2>2, <2>3, <2>5
<1>17. CASE Packet
  BY <1>17 DEF Packet
<1>18. CASE Look
  BY <1>18 DEF Look
<1>19. CASE Callback
  BY <1>19 DEF Callback
<1> QED
  BY <1>1, <1>2, <1>3, <1>4, <1>5, <1>6, <1>7, <1>8, <1>9, <1>10, <1>11, <1>12, <1>13, <1>14, <1>15, <1>16,
     <1>17, <1>18, <1>19
     DEF Next, Register, Unregister


-----------------------------------------------------------------------------
(* The counter and the ids. *)

\* A second thread that counts races with the first.
LEMMA OneRegistersKept ==
  ASSUME TypeOK, Sound, Next, ~raced'
  PROVE  OneRegisters'
<1> USE DEF TypeOK, ListTypes, NetTypes, ThreadTypes, Threads, list, memory, net, At, Goto, Target,
            Registering, Searching, Unlinked, Sound, OneRegisters
<1>1. ASSUME NEW t \in Threads, Take(t) PROVE OneRegisters'
  BY <1>1 DEF Take
<1>2. ASSUME NEW t \in Threads, Bump(t) PROVE OneRegisters'
  <2>1. \A u \in Threads \ {t} : pc[u] \notin Registering
    BY <1>2, Disturbed
  <2>2. \A u \in Threads \ {t} : pc'[u] = pc[u]
    BY <1>2 DEF Bump
  <2> QED
    BY <2>1, <2>2
<1>3. ASSUME NEW t \in Threads, Start(t) PROVE OneRegisters'
  BY <1>3 DEF Start, Visit
<1>4. ASSUME NEW t \in Threads, Scan(t) PROVE OneRegisters'
  BY <1>4 DEF Scan
<1>5. ASSUME NEW t \in Threads, Raise(t) PROVE OneRegisters'
  BY <1>5 DEF Raise, Count
<1>6. ASSUME NEW t \in Threads, Step(t) PROVE OneRegisters'
  BY <1>6 DEF Step, Visit
<1>7. ASSUME NEW t \in Threads, Allocate(t) PROVE OneRegisters'
  BY <1>7 DEF Allocate
<1>8. ASSUME NEW t \in Threads, Push(t) PROVE OneRegisters'
  BY <1>8 DEF Push
<1>9. ASSUME NEW t \in Threads, Test(t) PROVE OneRegisters'
  BY <1>9 DEF Test
<1>10. ASSUME NEW t \in Threads, Pop(t) PROVE OneRegisters'
  BY <1>10 DEF Pop
<1>11. ASSUME NEW t \in Threads, First(t) PROVE OneRegisters'
  BY <1>11 DEF First
<1>12. ASSUME NEW t \in Threads, Find(t) PROVE OneRegisters'
  BY <1>12 DEF Find
<1>13. ASSUME NEW t \in Threads, Cut(t) PROVE OneRegisters'
  BY <1>13 DEF Cut
<1>14. ASSUME NEW t \in Threads, Lower(t) PROVE OneRegisters'
  BY <1>14 DEF Lower
<1>15. ASSUME NEW t \in Threads, Store(t) PROVE OneRegisters'
  BY <1>15 DEF Store, Count
<1>16. ASSUME NEW t \in Threads, Free(t) PROVE OneRegisters'
  BY <1>16 DEF Free
<1>17. CASE Packet
  BY <1>17 DEF Packet
<1>18. CASE Look
  BY <1>18 DEF Look
<1>19. CASE Callback
  BY <1>19 DEF Callback
<1> QED
  BY <1>1, <1>2, <1>3, <1>4, <1>5, <1>6, <1>7, <1>8, <1>9, <1>10, <1>11, <1>12, <1>13, <1>14, <1>15, <1>16,
     <1>17, <1>18, <1>19
     DEF Next, Register, Unregister

\* Nobody writes the counter before the thread that has read it.
LEMMA TakenKept ==
  ASSUME TypeOK, Sound, Next, ~raced'
  PROVE  Taken'
<1> USE DEF TypeOK, ListTypes, NetTypes, ThreadTypes, Threads, list, memory, net, At, Goto, Target,
            Registering, Searching, Unlinked, Sound, Taken
<1>1. ASSUME NEW t \in Threads, Take(t) PROVE Taken'
  BY <1>1 DEF Take
<1>2. ASSUME NEW t \in Threads, Bump(t) PROVE Taken'
  <2>1. \A u \in Threads \ {t} : pc[u] # "bump"
    BY <1>2, Disturbed
  <2>2. pc'[t] # "bump" /\ \A u \in Threads \ {t} : pc'[u] = pc[u]
    BY <1>2 DEF Bump
  <2> QED
    BY <2>1, <2>2
<1>3. ASSUME NEW t \in Threads, Start(t) PROVE Taken'
  BY <1>3 DEF Start, Visit
<1>4. ASSUME NEW t \in Threads, Scan(t) PROVE Taken'
  BY <1>4 DEF Scan
<1>5. ASSUME NEW t \in Threads, Raise(t) PROVE Taken'
  <2>1. \A u \in Threads \ {t} : pc[u] # "bump"
    BY <1>5, Disturbed
  <2>2. pc'[t] # "bump" /\ \A u \in Threads \ {t} : pc'[u] = pc[u]
    BY <1>5 DEF Raise
  <2> QED
    BY <2>1, <2>2
<1>6. ASSUME NEW t \in Threads, Step(t) PROVE Taken'
  BY <1>6 DEF Step, Visit
<1>7. ASSUME NEW t \in Threads, Allocate(t) PROVE Taken'
  BY <1>7 DEF Allocate
<1>8. ASSUME NEW t \in Threads, Push(t) PROVE Taken'
  BY <1>8 DEF Push
<1>9. ASSUME NEW t \in Threads, Test(t) PROVE Taken'
  BY <1>9 DEF Test
<1>10. ASSUME NEW t \in Threads, Pop(t) PROVE Taken'
  BY <1>10 DEF Pop
<1>11. ASSUME NEW t \in Threads, First(t) PROVE Taken'
  BY <1>11 DEF First
<1>12. ASSUME NEW t \in Threads, Find(t) PROVE Taken'
  BY <1>12 DEF Find
<1>13. ASSUME NEW t \in Threads, Cut(t) PROVE Taken'
  BY <1>13 DEF Cut
<1>14. ASSUME NEW t \in Threads, Lower(t) PROVE Taken'
  BY <1>14 DEF Lower
<1>15. ASSUME NEW t \in Threads, Store(t) PROVE Taken'
  <2>1. \A u \in Threads \ {t} : pc[u] # "bump"
    BY <1>15, Disturbed
  <2>2. pc'[t] # "bump" /\ \A u \in Threads \ {t} : pc'[u] = pc[u]
    BY <1>15 DEF Store
  <2> QED
    BY <2>1, <2>2
<1>16. ASSUME NEW t \in Threads, Free(t) PROVE Taken'
  BY <1>16 DEF Free
<1>17. CASE Packet
  BY <1>17 DEF Packet
<1>18. CASE Look
  BY <1>18 DEF Look
<1>19. CASE Callback
  BY <1>19 DEF Callback
<1> QED
  BY <1>1, <1>2, <1>3, <1>4, <1>5, <1>6, <1>7, <1>8, <1>9, <1>10, <1>11, <1>12, <1>13, <1>14, <1>15, <1>16,
     <1>17, <1>18, <1>19
     DEF Next, Register, Unregister

\* Only a new id is linked.
LEMMA DistinctKept ==
  ASSUME TypeOK, Sound, Next, ~raced'
  PROVE  Distinct'
<1> USE DEF TypeOK, ListTypes, NetTypes, ThreadTypes, Threads, list, memory, net, At, Goto, Target,
            Registering, Searching, Unlinked, Sound, NewId, Linked, Roles, Distinct, NewIds
<1>1. ASSUME NEW t \in Threads, Take(t) PROVE Distinct'
  BY <1>1 DEF Take
<1>2. ASSUME NEW t \in Threads, Bump(t) PROVE Distinct'
  BY <1>2 DEF Bump, Count
<1>3. ASSUME NEW t \in Threads, Start(t) PROVE Distinct'
  BY <1>3 DEF Start, Visit
<1>4. ASSUME NEW t \in Threads, Scan(t) PROVE Distinct'
  BY <1>4 DEF Scan
<1>5. ASSUME NEW t \in Threads, Raise(t) PROVE Distinct'
  BY <1>5 DEF Raise, Count
<1>6. ASSUME NEW t \in Threads, Step(t) PROVE Distinct'
  BY <1>6 DEF Step, Visit
<1>7. ASSUME NEW t \in Threads, Allocate(t) PROVE Distinct'
  BY <1>7 DEF Allocate
<1>8. ASSUME NEW t \in Threads, Push(t) PROVE Distinct'
  BY <1>8 DEF Push
<1>9. ASSUME NEW t \in Threads, Test(t) PROVE Distinct'
  BY <1>9 DEF Test
<1>10. ASSUME NEW t \in Threads, Pop(t) PROVE Distinct'
  BY <1>10 DEF Pop
<1>11. ASSUME NEW t \in Threads, First(t) PROVE Distinct'
  BY <1>11 DEF First
<1>12. ASSUME NEW t \in Threads, Find(t) PROVE Distinct'
  BY <1>12 DEF Find
<1>13. ASSUME NEW t \in Threads, Cut(t) PROVE Distinct'
  BY <1>13 DEF Cut
<1>14. ASSUME NEW t \in Threads, Lower(t) PROVE Distinct'
  BY <1>14 DEF Lower
<1>15. ASSUME NEW t \in Threads, Store(t) PROVE Distinct'
  BY <1>15 DEF Store, Count
<1>16. ASSUME NEW t \in Threads, Free(t) PROVE Distinct'
  BY <1>16, Held DEF Free
<1>17. CASE Packet
  BY <1>17 DEF Packet
<1>18. CASE Look
  BY <1>18 DEF Look
<1>19. CASE Callback
  BY <1>19 DEF Callback
<1> QED
  BY <1>1, <1>2, <1>3, <1>4, <1>5, <1>6, <1>7, <1>8, <1>9, <1>10, <1>11, <1>12, <1>13, <1>14, <1>15, <1>16,
     <1>17, <1>18, <1>19
     DEF Next, Register, Unregister

\* An id that is given back has been nobody else's, and nobody gets it meanwhile.
LEMMA GivenBackKept ==
  ASSUME TypeOK, Sound, Next, ~raced'
  PROVE  GivenBack'
<1> USE DEF TypeOK, ListTypes, NetTypes, ThreadTypes, Threads, list, memory, net, At, Goto, Target,
            Registering, Searching, Unlinked, Sound, NewId, Linked, Roles, GivenBack, Distinct, NewIds
<1>1. ASSUME NEW t \in Threads, Take(t) PROVE GivenBack'
  BY <1>1 DEF Take
<1>2. ASSUME NEW t \in Threads, Bump(t) PROVE GivenBack'
  BY <1>2 DEF Bump, Count
<1>3. ASSUME NEW t \in Threads, Start(t) PROVE GivenBack'
  BY <1>3 DEF Start, Visit
<1>4. ASSUME NEW t \in Threads, Scan(t) PROVE GivenBack'
  BY <1>4 DEF Scan
<1>5. ASSUME NEW t \in Threads, Raise(t) PROVE GivenBack'
  BY <1>5 DEF Raise, Count
<1>6. ASSUME NEW t \in Threads, Step(t) PROVE GivenBack'
  BY <1>6 DEF Step, Visit
<1>7. ASSUME NEW t \in Threads, Allocate(t) PROVE GivenBack'
  BY <1>7 DEF Allocate
<1>8. ASSUME NEW t \in Threads, Push(t) PROVE GivenBack'
  BY <1>8 DEF Push
<1>9. ASSUME NEW t \in Threads, Test(t) PROVE GivenBack'
  BY <1>9 DEF Test
<1>10. ASSUME NEW t \in Threads, Pop(t) PROVE GivenBack'
  BY <1>10, Held DEF Pop
<1>11. ASSUME NEW t \in Threads, First(t) PROVE GivenBack'
  BY <1>11 DEF First
<1>12. ASSUME NEW t \in Threads, Find(t) PROVE GivenBack'
  BY <1>12 DEF Find
<1>13. ASSUME NEW t \in Threads, Cut(t) PROVE GivenBack'
  BY <1>13, Held DEF Cut
<1>14. ASSUME NEW t \in Threads, Lower(t) PROVE GivenBack'
  BY <1>14 DEF Lower
<1>15. ASSUME NEW t \in Threads, Store(t) PROVE GivenBack'
  BY <1>15 DEF Store, Count
<1>16. ASSUME NEW t \in Threads, Free(t) PROVE GivenBack'
  <2>1. Target(t) \in Nodes \ members
    BY <1>16, Held DEF Free
  <2>2. \A u \in Threads \ {t} : pc[u] \in {"lower", "store"} => Target(u) # Target(t) /\ Target(u) \in Nodes
    BY <1>16, Apart, Held DEF Free
  <2>3. /\ \A u \in Threads \ {t} : pc'[u] = pc[u] /\ Target(u)' = Target(u)
        /\ pc'[t] = "out" /\ members' = members /\ id' = [id EXCEPT ![Target(t)] = 0]
    BY <1>16, Held DEF Free
  <2> QED
    BY <2>1, <2>2, <2>3
<1>17. CASE Packet
  BY <1>17 DEF Packet
<1>18. CASE Look
  BY <1>18 DEF Look
<1>19. CASE Callback
  BY <1>19 DEF Callback
<1> QED
  BY <1>1, <1>2, <1>3, <1>4, <1>5, <1>6, <1>7, <1>8, <1>9, <1>10, <1>11, <1>12, <1>13, <1>14, <1>15, <1>16,
     <1>17, <1>18, <1>19
     DEF Next, Register, Unregister

\* Once nobody registers the counter is at an id that is not in use.
LEMMA NextIsFreeKept ==
  ASSUME TypeOK, Sound, Next, ~raced'
  PROVE  NextIsFree'
<1> USE DEF TypeOK, ListTypes, NetTypes, ThreadTypes, Threads, list, memory, net, At, Goto, Target,
            Registering, Searching, Unlinked, Sound, NewId, Linked, Roles, NextIsFree, GivenBack, Above
<1>1. ASSUME NEW t \in Threads, Take(t) PROVE NextIsFree'
  BY <1>1 DEF Take
<1>2. ASSUME NEW t \in Threads, Bump(t) PROVE NextIsFree'
  BY <1>2 DEF Bump, Count
<1>3. ASSUME NEW t \in Threads, Start(t) PROVE NextIsFree'
  BY <1>3 DEF Start, Visit
<1>4. ASSUME NEW t \in Threads, Scan(t) PROVE NextIsFree'
  BY <1>4 DEF Scan
<1>5. ASSUME NEW t \in Threads, Raise(t) PROVE NextIsFree'
  BY <1>5 DEF Raise, Count
<1>6. ASSUME NEW t \in Threads, Step(t) PROVE NextIsFree'
  BY <1>6 DEF Step, Visit
<1>7. ASSUME NEW t \in Threads, Allocate(t) PROVE NextIsFree'
  BY <1>7 DEF Allocate
<1>8. ASSUME NEW t \in Threads, Push(t) PROVE NextIsFree'
  <2>1. \A n \in members \cup {own[t]} : id[n] < next
    BY <1>8 DEF Push, NewIds
  <2>2. members' = members \cup {own[t]} /\ id' = id /\ next' = next
    BY <1>8 DEF Push
  <2> QED
    BY <2>1, <2>2
<1>9. ASSUME NEW t \in Threads, Test(t) PROVE NextIsFree'
  BY <1>9 DEF Test
<1>10. ASSUME NEW t \in Threads, Pop(t) PROVE NextIsFree'
  BY <1>10 DEF Pop
<1>11. ASSUME NEW t \in Threads, First(t) PROVE NextIsFree'
  BY <1>11 DEF First
<1>12. ASSUME NEW t \in Threads, Find(t) PROVE NextIsFree'
  BY <1>12 DEF Find
<1>13. ASSUME NEW t \in Threads, Cut(t) PROVE NextIsFree'
  BY <1>13 DEF Cut
<1>14. ASSUME NEW t \in Threads, Lower(t) PROVE NextIsFree'
  BY <1>14 DEF Lower
<1>15. ASSUME NEW t \in Threads, Store(t) PROVE NextIsFree'
  BY <1>15 DEF Store, Count
<1>16. ASSUME NEW t \in Threads, Free(t) PROVE NextIsFree'
  BY <1>16, Held DEF Free
<1>17. CASE Packet
  BY <1>17 DEF Packet
<1>18. CASE Look
  BY <1>18 DEF Look
<1>19. CASE Callback
  BY <1>19 DEF Callback
<1> QED
  BY <1>1, <1>2, <1>3, <1>4, <1>5, <1>6, <1>7, <1>8, <1>9, <1>10, <1>11, <1>12, <1>13, <1>14, <1>15, <1>16,
     <1>17, <1>18, <1>19
     DEF Next, Register, Unregister

\* The id of the channel that is registered stays new until it is linked.
LEMMA NewIdsKept ==
  ASSUME TypeOK, Sound, Next, ~raced'
  PROVE  NewIds'
<1> USE DEF TypeOK, ListTypes, NetTypes, ThreadTypes, Threads, list, memory, net, At, Goto, Target,
            Registering, Searching, Unlinked, Sound, NewId, Linked, Roles, NewIds, NextIsFree, Taken
<1>1. ASSUME NEW t \in Threads, Take(t) PROVE NewIds'
  BY <1>1 DEF Take
<1>2. ASSUME NEW t \in Threads, Bump(t) PROVE NewIds'
  <2>1. \A u \in Threads \ {t} : pc[u] \notin {"lower", "store"} \cup Registering
    BY <1>2, Disturbed
  <2>2. /\ pc[t] = "bump" /\ pc' = [pc EXCEPT ![t] = "start"] /\ val' = val /\ next' = val[t] + 1
        /\ members' = members /\ id' = id
    BY <1>2 DEF Bump, Count
  <2>3. \A n \in members : id[n] # val[t]
    BY <2>1, <2>2
  <2> QED
    BY <2>1, <2>2, <2>3
<1>3. ASSUME NEW t \in Threads, Start(t) PROVE NewIds'
  BY <1>3 DEF Start, Visit
<1>4. ASSUME NEW t \in Threads, Scan(t) PROVE NewIds'
  BY <1>4 DEF Scan
<1>5. ASSUME NEW t \in Threads, Raise(t) PROVE NewIds'
  <2>1. \A u \in Threads \ {t} : pc[u] \notin {"lower", "store"} \cup Registering
    BY <1>5, Disturbed
  <2>2. /\ pc[t] = "raise" /\ pc' = [pc EXCEPT ![t] = "step"] /\ val' = val /\ next' = id[ptr[t]] + 1
        /\ members' = members /\ id' = id
    BY <1>5 DEF Raise, Count
  <2>3. next' > next
    BY <2>2, Held DEF Above
  <2>4. val[t] < next' /\ \A n \in members : id[n] # val[t]
    BY <2>2, <2>3
  <2> QED
    BY <2>1, <2>2, <2>4
<1>6. ASSUME NEW t \in Threads, Step(t) PROVE NewIds'
  BY <1>6 DEF Step, Visit
<1>7. ASSUME NEW t \in Threads, Allocate(t) PROVE NewIds'
  BY <1>7, Held DEF Allocate
<1>8. ASSUME NEW t \in Threads, Push(t) PROVE NewIds'
  <2>1. \A u \in Threads \ {t} : pc[u] \notin Registering
    BY <1>8 DEF Push, OneRegisters
  <2>2. pc'[t] \notin Registering /\ \A u \in Threads \ {t} : pc'[u] = pc[u]
    BY <1>8 DEF Push
  <2> QED
    BY <2>1, <2>2
<1>9. ASSUME NEW t \in Threads, Test(t) PROVE NewIds'
  BY <1>9 DEF Test
<1>10. ASSUME NEW t \in Threads, Pop(t) PROVE NewIds'
  BY <1>10, Held DEF Pop
<1>11. ASSUME NEW t \in Threads, First(t) PROVE NewIds'
  BY <1>11 DEF First
<1>12. ASSUME NEW t \in Threads, Find(t) PROVE NewIds'
  BY <1>12 DEF Find
<1>13. ASSUME NEW t \in Threads, Cut(t) PROVE NewIds'
  BY <1>13, Held DEF Cut
<1>14. ASSUME NEW t \in Threads, Lower(t) PROVE NewIds'
  BY <1>14 DEF Lower
<1>15. ASSUME NEW t \in Threads, Store(t) PROVE NewIds'
  <2>1. \A u \in Threads \ {t} : pc[u] \notin Registering
    BY <1>15, Disturbed
  <2>2. pc'[t] \notin Registering /\ \A u \in Threads \ {t} : pc'[u] = pc[u]
    BY <1>15 DEF Store
  <2> QED
    BY <2>1, <2>2
<1>16. ASSUME NEW t \in Threads, Free(t) PROVE NewIds'
  <2>1. Target(t) \in Nodes \ members /\ pc[t] \in Unlinked
    BY <1>16, Held DEF Free
  <2>2. \A u \in Threads \ {t} : /\ pc[u] \in {"lower", "store"} => Target(u) # Target(t) /\ Target(u) \in Nodes
                                 /\ pc[u] = "push" => own[u] # Target(t) /\ own[u] \in Nodes
    BY <2>1, Apart, Held
  <2>3. /\ \A u \in Threads \ {t} : pc'[u] = pc[u] /\ Target(u)' = Target(u) /\ own'[u] = own[u]
        /\ pc'[t] = "out" /\ members' = members /\ id' = [id EXCEPT ![Target(t)] = 0]
    BY <1>16, Held DEF Free
  <2>4. val' = val /\ next' = next
    BY <1>16 DEF Free
  <2>5. ASSUME NEW u \in Threads, pc'[u] \in Registering
        PROVE  u # t /\ pc[u] \in Registering /\ NewId(u)' = NewId(u)
    BY <2>1, <2>2, <2>3, <2>4, <2>5
  <2>6. \A n \in members : id'[n] = id[n]
    BY <2>1, <2>3
  <2>7. \A u \in Threads :
          pc'[u] \in {"lower", "store"} => pc[u] \in {"lower", "store"} /\ id[Target(u)]' = id[Target(u)]
    BY <2>2, <2>3
  <2> HIDE DEF NewId, Target
  <2> QED
    BY <2>3, <2>4, <2>5, <2>6, <2>7
<1>17. CASE Packet
  BY <1>17 DEF Packet
<1>18. CASE Look
  BY <1>18 DEF Look
<1>19. CASE Callback
  BY <1>19 DEF Callback
<1> QED
  BY <1>1, <1>2, <1>3, <1>4, <1>5, <1>6, <1>7, <1>8, <1>9, <1>10, <1>11, <1>12, <1>13, <1>14, <1>15, <1>16,
     <1>17, <1>18, <1>19
     DEF Next, Register, Unregister


-----------------------------------------------------------------------------
(* On the way through the list. *)

\* A channel that is cut out is passed by, from wherever one comes.
LEMMA PassedBy ==
  ASSUME TypeOK, Sound, NEW t \in Threads, Cut(t), NEW p, NEW S, Leads(link, p, S)
  PROVE  \E Q : Leads(link', p, Q) /\ Q \subseteq S /\ S \ {Target(t)} \subseteq Q
<1> USE DEF TypeOK, ListTypes, memory, At
<1>1. ptr[t] \in Nodes /\ link[ptr[t]] = Target(t) /\ Target(t) # Nil
  BY Held, ListAssumption DEF Cut, Sound, Cuts, Searching
<1>2. link' = [link EXCEPT ![ptr[t]] = link[link[ptr[t]]]]
  BY <1>1 DEF Cut
<1>3. CASE ptr[t] \in S
  <2>1. Leads(link', p, S \ {Target(t)})
    BY <1>1, <1>2, <1>3, LeadsCut
  <2> QED
    BY <2>1
<1>4. CASE ptr[t] \notin S
  <2>1. S \subseteq Nodes
    BY LeadsNowhere
  <2>2. \A n \in S : link'[n] = link[n]
    BY <1>1, <1>2, <1>4, <2>1
  <2> QED
    BY <2>2, LeadsFrame
<1> QED
  BY <1>3, <1>4

\* Nobody who registers walks past a channel that he has to raise the counter for.
LEMMA AheadKept ==
  ASSUME TypeOK, Sound, Next, ~raced'
  PROVE  Ahead'
<1> USE DEF TypeOK, ListTypes, NetTypes, ThreadTypes, Threads, list, memory, net, At, Goto, Target,
            Registering, Searching, Unlinked, Sound, Linked, Roles, Ahead, Above, OneRegisters
<1>1. ASSUME NEW t \in Threads, Take(t) PROVE Ahead'
  BY <1>1 DEF Take
<1>2. ASSUME NEW t \in Threads, Bump(t) PROVE Ahead'
  <2>1. \A u \in Threads \ {t} : pc[u] \notin {"scan", "raise", "step"}
    BY <1>2, Disturbed
  <2>2. pc'[t] \notin {"scan", "raise", "step"} /\ \A u \in Threads \ {t} : pc'[u] = pc[u]
    BY <1>2 DEF Bump
  <2> QED
    BY <2>1, <2>2
<1>3. ASSUME NEW t \in Threads, Start(t) PROVE Ahead'
  <2>1. /\ pc' = [pc EXCEPT ![t] = IF head = Nil THEN "malloc" ELSE "scan"]
        /\ ptr' = [ptr EXCEPT ![t] = head]
        /\ UNCHANGED <<link, members, heap, id, next>>
    BY <1>3 DEF Start, Visit
  <2>2. Leads(link, head, members) /\ members \in SUBSET heap
    BY DEF Whole
  <2> HIDE DEF Linked
  <2>3. head # Nil => \E S \in SUBSET heap : Leads(link, head, S) /\ \A n \in members \ S : id[n] < next
    BY <2>2
  <2> QED
    BY <2>1, <2>3
<1>4. ASSUME NEW t \in Threads, Scan(t) PROVE Ahead'
  BY <1>4 DEF Scan
<1>5. ASSUME NEW t \in Threads, Raise(t) PROVE Ahead'
  BY <1>5 DEF Raise, Count
<1>6. ASSUME NEW t \in Threads, Step(t) PROVE Ahead'
  <2>1. /\ pc[t] = "step" /\ pc' = [pc EXCEPT ![t] = IF link[ptr[t]] = Nil THEN "malloc" ELSE "scan"]
        /\ ptr' = [ptr EXCEPT ![t] = link[ptr[t]]]
        /\ UNCHANGED <<link, members, heap, id, next>>
    BY <1>6 DEF Step, Visit
  <2>2. PICK S \in SUBSET heap : Leads(link, ptr[t], S) /\ \A n \in members \ S : id[n] < next
    BY <2>1
  <2>3. Leads(link, link[ptr[t]], S \ {ptr[t]}) /\ id[ptr[t]] < next
    BY <2>1, <2>2, Held, LeadsOn
  <2>4. \A n \in members \ (S \ {ptr[t]}) : id[n] < next
    BY <2>2, <2>3
  <2>5. S \ {ptr[t]} \in SUBSET heap
    BY <2>2
  <2> QED
    BY <2>1, <2>3, <2>4, <2>5
<1>7. ASSUME NEW t \in Threads, Allocate(t) PROVE Ahead'
  BY <1>7 DEF Allocate
<1>8. ASSUME NEW t \in Threads, Push(t) PROVE Ahead'
  BY <1>8 DEF Push
<1>9. ASSUME NEW t \in Threads, Test(t) PROVE Ahead'
  BY <1>9 DEF Test
<1>10. ASSUME NEW t \in Threads, Pop(t) PROVE Ahead'
  BY <1>10 DEF Pop
<1>11. ASSUME NEW t \in Threads, First(t) PROVE Ahead'
  BY <1>11 DEF First
<1>12. ASSUME NEW t \in Threads, Find(t) PROVE Ahead'
  BY <1>12 DEF Find
<1>13. ASSUME NEW t \in Threads, Cut(t) PROVE Ahead'
  <2>1. /\ members' = members \ {Target(t)} /\ UNCHANGED <<heap, id, next>>
        /\ pc' = [pc EXCEPT ![t] = "lower"] /\ ptr' = [ptr EXCEPT ![t] = Nil]
    BY <1>13 DEF Cut
  <2> SUFFICES ASSUME NEW u \in Threads, pc'[u] \in {"scan", "raise", "step"}
               PROVE  /\ ptr'[u] # Nil
                      /\ \E Q \in SUBSET heap : /\ Leads(link', ptr'[u], Q)
                                                /\ \A n \in members' \ Q : id'[n] < next'
    BY <2>1
  <2>2. u # t /\ ptr'[u] = ptr[u] /\ pc[u] \in {"scan", "raise", "step"}
    BY <2>1
  <2>3. PICK S \in SUBSET heap : Leads(link, ptr[u], S) /\ \A n \in members \ S : id[n] < next
    BY <2>2
  <2>4. PICK Q : Leads(link', ptr[u], Q) /\ Q \subseteq S /\ S \ {Target(t)} \subseteq Q
    BY <1>13, <2>3, PassedBy
  <2> QED
    BY <2>1, <2>2, <2>3, <2>4
<1>14. ASSUME NEW t \in Threads, Lower(t) PROVE Ahead'
  BY <1>14 DEF Lower
<1>15. ASSUME NEW t \in Threads, Store(t) PROVE Ahead'
  <2>1. \A u \in Threads \ {t} : pc[u] \notin {"scan", "raise", "step"}
    BY <1>15, Disturbed
  <2>2. pc'[t] \notin {"scan", "raise", "step"} /\ \A u \in Threads \ {t} : pc'[u] = pc[u]
    BY <1>15 DEF Store
  <2> QED
    BY <2>1, <2>2
<1>16. ASSUME NEW t \in Threads, Free(t) PROVE Ahead'
  <2>1. \A u \in Threads \ {t} : pc[u] \notin {"scan", "raise", "step"}
    BY <1>16, Disturbed
  <2>2. pc'[t] \notin {"scan", "raise", "step"} /\ \A u \in Threads \ {t} : pc'[u] = pc[u]
    BY <1>16 DEF Free
  <2> QED
    BY <2>1, <2>2
<1>17. CASE Packet
  BY <1>17 DEF Packet
<1>18. CASE Look
  BY <1>18 DEF Look
<1>19. CASE Callback
  BY <1>19 DEF Callback
<1> QED
  BY <1>1, <1>2, <1>3, <1>4, <1>5, <1>6, <1>7, <1>8, <1>9, <1>10, <1>11, <1>12, <1>13, <1>14, <1>15, <1>16,
     <1>17, <1>18, <1>19
     DEF Next, Register, Unregister

\* At the end of the list the counter is above all channels.
LEMMA AboveKept ==
  ASSUME TypeOK, Sound, Next, ~raced'
  PROVE  Above'
<1> USE DEF TypeOK, ListTypes, NetTypes, ThreadTypes, Threads, list, memory, net, At, Goto, Target,
            Registering, Searching, Unlinked, Sound, Linked, Roles, Ahead, Above, OneRegisters
<1>1. ASSUME NEW t \in Threads, Take(t) PROVE Above'
  BY <1>1 DEF Take
<1>2. ASSUME NEW t \in Threads, Bump(t) PROVE Above'
  <2>1. \A u \in Threads \ {t} : pc[u] \notin {"raise", "step", "malloc", "push"}
    BY <1>2, Disturbed
  <2>2. pc'[t] \notin {"raise", "step", "malloc", "push"} /\ \A u \in Threads \ {t} : pc'[u] = pc[u]
    BY <1>2 DEF Bump
  <2> QED
    BY <2>1, <2>2
<1>3. ASSUME NEW t \in Threads, Start(t) PROVE Above'
  <2>1. /\ pc' = [pc EXCEPT ![t] = IF head = Nil THEN "malloc" ELSE "scan"]
        /\ pc[t] = "start" /\ ptr' = [ptr EXCEPT ![t] = head]
        /\ UNCHANGED <<link, members, heap, id, next>>
    BY <1>3 DEF Start, Visit
  <2>2. head = Nil => members = {}
    BY LeadsNowhere DEF Whole
  <2>3. \A u \in Threads \ {t} : pc'[u] = pc[u] /\ ptr'[u] = ptr[u]
    BY <2>1
  <2>4. pc'[t] \in {"malloc", "scan"} /\ (pc'[t] = "malloc" => members = {})
    BY <2>1, <2>2
  <2> QED
    BY <2>1, <2>3, <2>4
<1>4. ASSUME NEW t \in Threads, Scan(t) PROVE Above'
  BY <1>4 DEF Scan
<1>5. ASSUME NEW t \in Threads, Raise(t) PROVE Above'
  BY <1>5 DEF Raise, Count
<1>6. ASSUME NEW t \in Threads, Step(t) PROVE Above'
  <2>1. /\ pc[t] = "step" /\ pc' = [pc EXCEPT ![t] = IF link[ptr[t]] = Nil THEN "malloc" ELSE "scan"]
        /\ ptr' = [ptr EXCEPT ![t] = link[ptr[t]]]
        /\ UNCHANGED <<link, members, heap, id, next>>
    BY <1>6 DEF Step, Visit
  <2>2. PICK S \in SUBSET heap : Leads(link, ptr[t], S) /\ \A n \in members \ S : id[n] < next
    BY <2>1
  <2>3. Leads(link, link[ptr[t]], S \ {ptr[t]}) /\ id[ptr[t]] < next
    BY <2>1, <2>2, Held, LeadsOn
  <2>4. link[ptr[t]] = Nil => \A n \in members : id[n] < next
    <3>1. link[ptr[t]] = Nil => S \ {ptr[t]} = {}
      BY <2>3, LeadsNowhere
    <3> QED
      BY <2>2, <2>3, <3>1
  <2>5. \A u \in Threads \ {t} : pc'[u] = pc[u] /\ ptr'[u] = ptr[u]
    BY <2>1
  <2>6. pc'[t] \in {"malloc", "scan"} /\ (pc'[t] = "malloc" => link[ptr[t]] = Nil)
    BY <2>1
  <2> QED
    BY <2>1, <2>4, <2>5, <2>6
<1>7. ASSUME NEW t \in Threads, Allocate(t) PROVE Above'
  BY <1>7 DEF Allocate
<1>8. ASSUME NEW t \in Threads, Push(t) PROVE Above'
  BY <1>8 DEF Push
<1>9. ASSUME NEW t \in Threads, Test(t) PROVE Above'
  BY <1>9 DEF Test
<1>10. ASSUME NEW t \in Threads, Pop(t) PROVE Above'
  BY <1>10 DEF Pop
<1>11. ASSUME NEW t \in Threads, First(t) PROVE Above'
  BY <1>11 DEF First
<1>12. ASSUME NEW t \in Threads, Find(t) PROVE Above'
  BY <1>12 DEF Find
<1>13. ASSUME NEW t \in Threads, Cut(t) PROVE Above'
  BY <1>13 DEF Cut
<1>14. ASSUME NEW t \in Threads, Lower(t) PROVE Above'
  BY <1>14 DEF Lower
<1>15. ASSUME NEW t \in Threads, Store(t) PROVE Above'
  <2>1. \A u \in Threads \ {t} : pc[u] \notin {"raise", "step", "malloc", "push"}
    BY <1>15, Disturbed
  <2>2. pc'[t] \notin {"raise", "step", "malloc", "push"} /\ \A u \in Threads \ {t} : pc'[u] = pc[u]
    BY <1>15 DEF Store
  <2> QED
    BY <2>1, <2>2
<1>16. ASSUME NEW t \in Threads, Free(t) PROVE Above'
  <2>1. \A u \in Threads \ {t} : pc[u] \notin {"raise", "step"}
    BY <1>16, Disturbed
  <2>2. Target(t) \in Nodes \ members
    BY <1>16, Held DEF Free
  <2>3. /\ pc' = [pc EXCEPT ![t] = "out"] /\ members' = members /\ next' = next
        /\ id' = [id EXCEPT ![Target(t)] = 0]
    BY <1>16 DEF Free
  <2> QED
    BY <2>1, <2>2, <2>3
<1>17. CASE Packet
  BY <1>17 DEF Packet
<1>18. CASE Look
  BY <1>18 DEF Look
<1>19. CASE Callback
  BY <1>19 DEF Callback
<1> QED
  BY <1>1, <1>2, <1>3, <1>4, <1>5, <1>6, <1>7, <1>8, <1>9, <1>10, <1>11, <1>12, <1>13, <1>14, <1>15, <1>16,
     <1>17, <1>18, <1>19
     DEF Next, Register, Unregister

\* The channel of the packet stays ahead of N while it looks for it.
LEMMA LooksKept ==
  ASSUME TypeOK, Sound, Next, ~raced'
  PROVE  Looks'
<1> USE DEF TypeOK, ListTypes, NetTypes, ThreadTypes, Threads, list, memory, net, At, Goto, Target,
            Registering, Searching, Unlinked, Sound, Linked, Roles, Looks
<1>1. ASSUME NEW t \in Threads, Take(t) PROVE Looks'
  BY <1>1 DEF Take
<1>2. ASSUME NEW t \in Threads, Bump(t) PROVE Looks'
  BY <1>2 DEF Bump, Count
<1>3. ASSUME NEW t \in Threads, Start(t) PROVE Looks'
  BY <1>3 DEF Start, Visit
<1>4. ASSUME NEW t \in Threads, Scan(t) PROVE Looks'
  BY <1>4 DEF Scan
<1>5. ASSUME NEW t \in Threads, Raise(t) PROVE Looks'
  BY <1>5 DEF Raise, Count
<1>6. ASSUME NEW t \in Threads, Step(t) PROVE Looks'
  BY <1>6 DEF Step, Visit
<1>7. ASSUME NEW t \in Threads, Allocate(t) PROVE Looks'
  <2>1. PICK n \in Nodes \ heap : /\ link' = [link EXCEPT ![n] = head] /\ heap' = heap \cup {n}
                                  /\ id' = [id EXCEPT ![n] = val[t]]
    BY <1>7 DEF Allocate
  <2>2. pc' = [pc EXCEPT ![t] = "push"] /\ ptr' = ptr /\ due' = due /\ val' = [val EXCEPT ![t] = 0]
    BY <1>7 DEF Allocate
  <2> SUFFICES ASSUME pc'["N"] = "look" PROVE Looks'
    OBVIOUS
  <2>3. pc["N"] = "look" /\ val'["N"] = val["N"]
    BY <2>2
  <2>4. PICK Q \in SUBSET heap : /\ Leads(link, ptr["N"], Q)
                                 /\ due \in Q /\ \A m \in Q : id[m] = val["N"] <=> m = due
    BY <2>3
  <2>5. \A m \in Q : link'[m] = link[m] /\ id'[m] = id[m]
    BY <2>1, <2>4
  <2>6. Leads(link', ptr["N"], Q)
    BY <2>4, <2>5, LeadsFrame
  <2>7. Q \in SUBSET heap'
    BY <2>1, <2>4
  <2> QED
    BY <2>2, <2>3, <2>4, <2>5, <2>6, <2>7
<1>8. ASSUME NEW t \in Threads, Push(t) PROVE Looks'
  BY <1>8 DEF Push
<1>9. ASSUME NEW t \in Threads, Test(t) PROVE Looks'
  BY <1>9 DEF Test
<1>10. ASSUME NEW t \in Threads, Pop(t) PROVE Looks'
  BY <1>10 DEF Pop
<1>11. ASSUME NEW t \in Threads, First(t) PROVE Looks'
  BY <1>11 DEF First
<1>12. ASSUME NEW t \in Threads, Find(t) PROVE Looks'
  BY <1>12 DEF Find
<1>13. ASSUME NEW t \in Threads, Cut(t) PROVE Looks'
  <2>1. /\ members' = members \ {Target(t)} /\ UNCHANGED <<heap, id, val, due>> /\ pc[t] = "cut"
        /\ pc' = [pc EXCEPT ![t] = "lower"] /\ ptr' = [ptr EXCEPT ![t] = Nil]
    BY <1>13 DEF Cut
  <2> SUFFICES ASSUME pc'["N"] = "look" PROVE Looks'
    OBVIOUS
  <2>2. t # "N" /\ ptr'["N"] = ptr["N"] /\ pc["N"] = "look"
    BY <2>1
  <2>3. due # Target(t)
    BY <2>1, <2>2, Held, ListAssumption DEF Alone
  <2>4. PICK S \in SUBSET heap : /\ Leads(link, ptr["N"], S)
                                 /\ due \in S /\ \A n \in S : id[n] = val["N"] <=> n = due
    BY <2>2
  <2>5. PICK Q : Leads(link', ptr["N"], Q) /\ Q \subseteq S /\ S \ {Target(t)} \subseteq Q
    BY <1>13, <2>4, PassedBy
  <2>6. Q \in SUBSET heap' /\ due \in Q
    BY <2>1, <2>3, <2>4, <2>5
  <2> QED
    BY <2>1, <2>2, <2>4, <2>5, <2>6
<1>14. ASSUME NEW t \in Threads, Lower(t) PROVE Looks'
  BY <1>14 DEF Lower
<1>15. ASSUME NEW t \in Threads, Store(t) PROVE Looks'
  BY <1>15 DEF Store, Count
<1>16. ASSUME NEW t \in Threads, Free(t) PROVE Looks'
  <2>1. \A u \in Threads \ {t} : pc[u] \notin {"look"}
    BY <1>16, Disturbed
  <2>2. pc'[t] \notin {"look"} /\ \A u \in Threads \ {t} : pc'[u] = pc[u]
    BY <1>16 DEF Free
  <2> QED
    BY <2>1, <2>2
<1>17. CASE Packet
  <2>1. /\ due' \in owed /\ val' = [val EXCEPT !["N"] = id[due']] /\ ptr' = [ptr EXCEPT !["N"] = head]
        /\ UNCHANGED <<link, heap, id>>
    BY <1>17 DEF Packet
  <2>2. Leads(link, head, members) /\ members \in SUBSET heap
    BY DEF Whole
  <2>3. due' \in members /\ \A n \in members : id[n] = id[due'] <=> n = due'
    BY <2>1 DEF Distinct
  <2> QED
    BY <2>1, <2>2, <2>3
<1>18. CASE Look
  <2> SUFFICES ASSUME pc'["N"] = "look" PROVE Looks'
    OBVIOUS
  <2>1. /\ pc["N"] = "look" /\ ptr["N"] # Nil /\ id[ptr["N"]] # val["N"]
        /\ ptr' = [ptr EXCEPT !["N"] = link[ptr["N"]]]
        /\ UNCHANGED <<link, heap, id, due, val>>
    BY <1>18 DEF Look
  <2>2. PICK S \in SUBSET heap : /\ Leads(link, ptr["N"], S)
                                 /\ due \in S /\ \A n \in S : id[n] = val["N"] <=> n = due
    BY <2>1
  <2>3. ptr["N"] \in S
    BY <2>1, <2>2, LeadsNowhere
  <2>4. Leads(link, link[ptr["N"]], S \ {ptr["N"]})
    BY <2>2, <2>3, LeadsOn
  <2>5. due \in S \ {ptr["N"]} /\ S \ {ptr["N"]} \in SUBSET heap
    BY <2>1, <2>2
  <2> QED
    BY <2>1, <2>2, <2>4, <2>5
<1>19. CASE Callback
  BY <1>19 DEF Callback
<1> QED
  BY <1>1, <1>2, <1>3, <1>4, <1>5, <1>6, <1>7, <1>8, <1>9, <1>10, <1>11, <1>12, <1>13, <1>14, <1>15, <1>16,
     <1>17, <1>18, <1>19
     DEF Next, Register, Unregister

\* No freed channel is used, and the assertions hold.
LEMMA NoCrash ==
  ASSUME TypeOK, Sound, Next, ~raced'
  PROVE  ~crashed'
<1> USE DEF TypeOK, ListTypes, NetTypes, ThreadTypes, Threads, list, memory, net, At, Goto, Target,
            Registering, Searching, Unlinked, Sound, Linked, Roles, Use
<1>1. ASSUME NEW t \in Threads, Take(t) PROVE ~crashed'
  BY <1>1 DEF Take
<1>2. ASSUME NEW t \in Threads, Bump(t) PROVE ~crashed'
  BY <1>2 DEF Bump, Count
<1>3. ASSUME NEW t \in Threads, Start(t) PROVE ~crashed'
  BY <1>3 DEF Start, Visit
<1>4. ASSUME NEW t \in Threads, Scan(t) PROVE ~crashed'
  BY <1>4, Held DEF Scan
<1>5. ASSUME NEW t \in Threads, Raise(t) PROVE ~crashed'
  BY <1>5, Held DEF Raise, Count
<1>6. ASSUME NEW t \in Threads, Step(t) PROVE ~crashed'
  BY <1>6, Held DEF Step, Visit
<1>7. ASSUME NEW t \in Threads, Allocate(t) PROVE ~crashed'
  BY <1>7 DEF Allocate
<1>8. ASSUME NEW t \in Threads, Push(t) PROVE ~crashed'
  BY <1>8 DEF Push
<1>9. ASSUME NEW t \in Threads, Test(t) PROVE ~crashed'
  BY <1>9 DEF Test
<1>10. ASSUME NEW t \in Threads, Pop(t) PROVE ~crashed'
  BY <1>10, Held DEF Pop
<1>11. ASSUME NEW t \in Threads, First(t) PROVE ~crashed'
  <2>1. Target(t) \in members
    BY <1>11, Held DEF First
  <2>2. head # Nil
    BY <2>1, LeadsNowhere DEF Whole
  <2> QED
    BY <1>11, <2>2 DEF First
<1>12. ASSUME NEW t \in Threads, Find(t) PROVE ~crashed'
  <2>1. PICK S \in SUBSET members : Leads(link, ptr[t], S) /\ Target(t) \in S \ {ptr[t]}
    BY <1>12 DEF Find, Finds
  <2>2. ptr[t] \in members
    BY <1>12, Held DEF Find
  <2>3. Leads(link, link[ptr[t]], S \ {ptr[t]})
    BY <2>1, <2>2, LeadsOn
  <2>4. link[ptr[t]] # Nil
    BY <2>1, <2>3, LeadsNowhere
  <2>5. ptr[t] # Nil /\ ptr'[t] # Nil
    BY <1>12, <2>2, <2>4, ListAssumption DEF Find
  <2> QED
    BY <1>12, <2>2, <2>5 DEF Find
<1>13. ASSUME NEW t \in Threads, Cut(t) PROVE ~crashed'
  BY <1>13, Held DEF Cut
<1>14. ASSUME NEW t \in Threads, Lower(t) PROVE ~crashed'
  BY <1>14, Held DEF Lower
<1>15. ASSUME NEW t \in Threads, Store(t) PROVE ~crashed'
  BY <1>15, Held DEF Store, Count
<1>16. ASSUME NEW t \in Threads, Free(t) PROVE ~crashed'
  BY <1>16 DEF Free
<1>17. CASE Packet
  BY <1>17 DEF Packet
<1>18. CASE Look
  <2>1. pc["N"] = "look"
    BY <1>18 DEF Look
  <2>2. PICK S \in SUBSET heap : Leads(link, ptr["N"], S)
    BY <2>1 DEF Looks
  <2>3. ptr["N"] # Nil => ptr["N"] \in heap
    BY <2>2, LeadsNowhere
  <2> QED
    BY <1>18, <2>3 DEF Look
<1>19. CASE Callback
  <2>1. ending \in heap
    BY <1>19 DEF Callback, Handling
  <2> QED
    BY <1>19, <2>1 DEF Callback
<1> QED
  BY <1>1, <1>2, <1>3, <1>4, <1>5, <1>6, <1>7, <1>8, <1>9, <1>10, <1>11, <1>12, <1>13, <1>14, <1>15, <1>16,
     <1>17, <1>18, <1>19
     DEF Next, Register, Unregister


-----------------------------------------------------------------------------
(* What is reached along the list. *)

\* A set of numbers that is not empty has a least one.
LEMMA LeastNumber ==
  ASSUME NEW T \in SUBSET Nat, T # {}
  PROVE  \E x \in T : \A y \in T : x <= y
<1> DEFINE R == OpToRel(<, Nat)
<1>1. IsWellFoundedOn(R, Nat)
  BY NatLessThanWellFounded
<1>2. \A x, y \in Nat : y < x => <<y, x>> \in R
  BY DEF OpToRel
<1> HIDE DEF R
<1>3. PICK x \in T : \A y \in T : ~(<<y, x>> \in R)
  BY <1>1, WFMin, Zenon
<1>4. \A y \in T : ~(y < x)
  BY <1>2, <1>3, Zenon
<1> QED
  BY <1>4

\* g says where k steps along the list lead.
Counts(g) == g = [k \in Nat |-> IF k = 0 THEN head ELSE IF g[k - 1] = Nil THEN Nil ELSE link[g[k - 1]]]

\* There is one such function, and it follows the way.
LEMMA NthFollows ==
  ASSUME NEW k \in Nat, NEW w \in [0..k -> Nodes \cup {Nil}], IsWay(w, k, link, head)
  PROVE  \A i \in Nat : Nth[i] = IF i < k THEN w[i] ELSE Nil
<1> DEFINE f == [i \in Nat |-> IF i < k THEN w[i] ELSE Nil]
<1>1. Counts(f)
  <2>1. f[0] = head
    BY DEF IsWay
  <2>2. ASSUME NEW i \in Nat \ {0} PROVE f[i] = IF f[i - 1] = Nil THEN Nil ELSE link[f[i - 1]]
    <3>1. CASE i - 1 < k
      <4>1. i - 1 \in 0..(k - 1) /\ f[i - 1] = w[i - 1]
        BY <3>1
      <4>2. w[i - 1] # Nil /\ w[(i - 1) + 1] = link[w[i - 1]]
        BY <4>1, ListAssumption DEF IsWay
      <4>3. f[i] = w[i]
        BY <3>1 DEF IsWay
      <4> QED
        BY <4>1, <4>2, <4>3
    <3>2. CASE ~(i - 1 < k)
      BY <3>2
    <3> QED
      BY <3>1, <3>2
  <2>3. f = [i \in Nat |-> f[i]]
    OBVIOUS
  <2> HIDE DEF f
  <2>4. \A i \in Nat : f[i] = IF i = 0 THEN head ELSE IF f[i - 1] = Nil THEN Nil ELSE link[f[i - 1]]
    BY <2>1, <2>2
  <2> QED
    BY <2>3, <2>4 DEF Counts
<1>2. Nth = CHOOSE g : Counts(g)
  BY DEF Nth, Counts
<1>3. Counts(Nth)
  BY <1>1, <1>2
<1> HIDE DEF f
<1>4. \A g : Counts(g) =>
        \A i \in Nat : g[i] = IF i = 0 THEN head ELSE IF g[i - 1] = Nil THEN Nil ELSE link[g[i - 1]]
  <2> SUFFICES ASSUME NEW g, Counts(g), NEW i \in Nat
               PROVE  g[i] = IF i = 0 THEN head ELSE IF g[i - 1] = Nil THEN Nil ELSE link[g[i - 1]]
    OBVIOUS
  <2> DEFINE h(j) == IF j = 0 THEN head ELSE IF g[j - 1] = Nil THEN Nil ELSE link[g[j - 1]]
  <2>1. g = [j \in Nat |-> h(j)]
    BY DEF Counts
  <2> HIDE DEF h
  <2>2. g[i] = h(i)
    BY <2>1
  <2> QED
    BY <2>2 DEF h
<1> DEFINE Off == {i \in Nat : Nth[i] # f[i]}
<1>5. Off = {}
  <2> SUFFICES ASSUME Off # {} PROVE FALSE
    OBVIOUS
  <2>1. PICK i \in Off : \A j \in Off : i <= j
    BY LeastNumber
  <2>2. i # 0
    BY <1>1, <1>3, <1>4
  <2>3. i - 1 \in Nat /\ i - 1 \notin Off
    BY <2>1, <2>2
  <2> QED
    BY <1>1, <1>3, <1>4, <2>2, <2>3
<1>6. \A i \in Nat : Nth[i] = f[i]
  BY <1>5
<1> QED
  BY <1>6 DEF f

\* A list that is whole is what its links reach from the head.
LEMMA WholeIsReached ==
  ASSUME TypeOK, Whole
  PROVE  Reached = members \cup {Nil}
<1> DEFINE N == Cardinality(Nodes)
<1>1. PICK k \in Nat : \E w \in [0..k -> Nodes \cup {Nil}] :
        IsWay(w, k, link, head) /\ members = {w[i] : i \in 0..(k - 1)}
  BY DEF Whole, Leads
<1>2. PICK w \in [0..k -> Nodes \cup {Nil}] : IsWay(w, k, link, head) /\ members = {w[i] : i \in 0..(k - 1)}
  BY <1>1
<1>3. \A i \in Nat : Nth[i] = IF i < k THEN w[i] ELSE Nil
  BY <1>2, NthFollows
<1>4. N \in Nat /\ k <= N
  <2>1. IsFiniteSet(Nodes) /\ N \in Nat
    BY ListAssumption, FS_CardinalityType
  <2> DEFINE b == [i \in 1..k |-> w[i - 1]]
  <2>2. b \in [1..k -> Nodes]
    BY <1>2 DEF IsWay
  <2>3. \A i, j \in 1..k : b[i] = b[j] => i = j
    <3> SUFFICES ASSUME NEW i \in 1..k, NEW j \in 1..k, b[i] = b[j] PROVE i = j
      OBVIOUS
    <3>1. i - 1 \in 0..(k - 1) /\ j - 1 \in 0..(k - 1) /\ w[i - 1] = w[j - 1]
      OBVIOUS
    <3>2. i - 1 = j - 1
      BY <1>2, <3>1 DEF IsWay
    <3> QED
      BY <3>2
  <2> HIDE DEF b
  <2>4. b \in Injection(1..k, Nodes)
    BY <2>2, <2>3 DEF Injection, IsInjective
  <2>5. Cardinality(1..k) <= N
    BY <2>1, <2>4, FS_Injection
  <2>6. Cardinality(1..k) = k
    BY FS_Interval
  <2> QED
    BY <2>1, <2>5, <2>6
<1> HIDE DEF N
<1>5. Reached = {Nth[i] : i \in 0..N}
  BY DEF Reached, N
<1>6. ASSUME NEW i \in 0..N PROVE Nth[i] \in members \cup {Nil}
  <2>1. CASE i < k
    BY <1>2, <1>3, <2>1
  <2>2. CASE ~(i < k)
    BY <1>3, <1>4, <2>2
  <2> QED
    BY <2>1, <2>2
<1>7. ASSUME NEW n \in members PROVE \E i \in 0..N : n = Nth[i]
  <2>1. PICK i \in 0..(k - 1) : n = w[i]
    BY <1>2
  <2>2. i \in 0..N /\ Nth[i] = w[i]
    BY <1>3, <1>4
  <2> QED
    BY <2>1, <2>2
<1>8. Nth[N] = Nil /\ N \in 0..N
  BY <1>3, <1>4
<1> QED
  BY <1>5, <1>6, <1>7, <1>8, Zenon

-----------------------------------------------------------------------------
(* The invariant. *)

\* The list is empty at first.
LEMMA InitIInv == Init => IInv
<1> SUFFICES ASSUME Init PROVE IInv
  OBVIOUS
<1> USE ListAssumption DEF Init
<1>1. TypeOK
  BY DEF TypeOK, ListTypes, NetTypes, ThreadTypes, FlagTypes, Places
<1>2. Whole
  BY LeadsNowhere DEF Whole, Init
<1>3. Roles /\ Linked /\ Fresh /\ Returned /\ Alone /\ Handling
  BY DEF Roles, Linked, Fresh, Returned, Alone, Handling, Registering, Searching, Unlinked, Threads
<1>4. Heads /\ Cuts /\ Finds /\ Ahead /\ Above /\ Looks
  BY DEF Heads, Cuts, Finds, Ahead, Above, Looks, Threads
<1>5. Taken /\ OneRegisters /\ NewIds /\ Distinct /\ GivenBack /\ NextIsFree
  BY DEF Taken, OneRegisters, NewIds, Distinct, GivenBack, NextIsFree, Registering, Threads
<1> QED
  BY <1>1, <1>2, <1>3, <1>4, <1>5 DEF IInv, Sound

\* What follows a race is not followed.
LEMMA RacedEnds == TypeOK /\ raced /\ Next => FALSE
BY Zenon DEF Next, Register, Unregister, Take, Bump, Start, Scan, Raise, Step, Allocate, Push, Test, Pop, First,
             Find, Cut, Lower, Store, Free, Packet, Look, Callback, At

\* Every step keeps the invariant.
LEMMA NextIInv == IInv /\ [Next]_vars => IInv'
<1> SUFFICES ASSUME IInv, [Next]_vars PROVE IInv'
  OBVIOUS
<1>1. CASE Next
  <2>1. ~raced
    BY <1>1, RacedEnds DEF IInv
  <2>2. TypeOK /\ Sound
    BY <2>1 DEF IInv
  <2>3. TypeOK'
    BY <1>1, <2>2, TypesKept
  <2>4. CASE ~raced'
    <3>1. Roles' /\ Linked' /\ Fresh' /\ Returned' /\ Alone' /\ Handling'
      BY <1>1, <2>2, <2>4, RolesKept, LinkedKept, FreshKept, ReturnedKept, AloneKept, HandlingKept
    <3>2. Whole' /\ Heads' /\ Cuts' /\ Finds' /\ Ahead' /\ Above' /\ Looks'
      BY <1>1, <2>2, <2>4, WholeKept, HeadsKept, CutsKept, FindsKept, AheadKept, AboveKept, LooksKept
    <3>3. Taken' /\ OneRegisters' /\ NewIds' /\ Distinct' /\ GivenBack' /\ NextIsFree'
      BY <1>1, <2>2, <2>4, TakenKept, OneRegistersKept, NewIdsKept, DistinctKept, GivenBackKept, NextIsFreeKept
    <3>4. ~crashed'
      BY <1>1, <2>2, <2>4, NoCrash
    <3> QED
      BY <2>3, <3>1, <3>2, <3>3, <3>4 DEF IInv, Sound
  <2> QED
    BY <2>3, <2>4 DEF IInv
<1>2. CASE UNCHANGED vars
  <2> USE <1>2 DEF vars, list, memory, net
  <2>1. TypeOK'
    BY DEF IInv, TypeOK, ListTypes, NetTypes, ThreadTypes, FlagTypes
  <2>2. ASSUME ~raced' PROVE Sound'
    <3>1. Sound
      BY <2>2 DEF IInv
    <3>2. (Roles /\ Linked /\ Fresh /\ Returned /\ Alone /\ Handling)'
      BY <3>1 DEF Sound, Roles, Linked, Fresh, Returned, Alone, Handling
    <3>3. (Whole /\ Heads /\ Cuts /\ Finds)'
      BY <3>1 DEF Sound, Whole, Heads, Cuts, Finds, Target
    <3>4. (Ahead /\ Above /\ Looks)'
      BY <3>1 DEF Sound, Ahead, Above, Looks
    <3>5. (Taken /\ OneRegisters /\ NewIds /\ Distinct /\ GivenBack /\ NextIsFree)'
      BY <3>1 DEF Sound, Taken, OneRegisters, NewIds, NewId, Distinct, GivenBack, NextIsFree, Target
    <3> QED
      BY <3>1, <3>2, <3>3, <3>4, <3>5 DEF Sound
  <2> QED
    BY <2>1, <2>2 DEF IInv
<1> QED
  BY <1>1, <1>2

\* So it holds in every state.
LEMMA Invariance == Spec => []IInv
<1> QED
  BY InitIInv, NextIInv, PTL DEF Spec

\* The variables keep their types, for any number of nodes and ids.
THEOREM ListTypeCorrect == Spec => []TypeOK
<1>1. IInv => TypeOK
  BY DEF IInv
<1> QED
  BY <1>1, Invariance, PTL

\* The list runs through the registered channels and nothing else, with any number of threads
\* inside, until one writes a link that another is using (channel_register, channel_unregister).
THEOREM ListStaysWhole == Spec => []ListIsWhole
<1>1. IInv => ListIsWhole
  BY WholeIsReached DEF IInv, Sound, ListIsWhole
<1> QED
  BY <1>1, Invariance, PTL

\* No two registered channels have one id, and the next id is in nobody's use while nobody is
\* inside the counter.
THEOREM ListIdsDistinct == Spec => []IdsStayDistinct
<1>1. IInv => IdsStayDistinct
  BY DEF IInv, Sound, IdsStayDistinct, Distinct, NextIsFree, UsesCounter, Registering
<1> QED
  BY <1>1, Invariance, PTL

\* N finds the channel that its packet is meant for (channel_process, channel_by_id).
THEOREM ListLookupFinds == Spec => []LookupFinds
<1>1. ASSUME IInv PROVE LookupFinds
  <2>1. CASE raced
    BY <2>1 DEF LookupFinds
  <2>2. CASE ~raced
    <3>1. TypeOK /\ Sound
      BY <1>1, <2>2 DEF IInv
    <3>2. pc["N"] = "look" => ptr["N"] # Nil
      BY <3>1, LeadsNowhere DEF Sound, Looks, TypeOK, ListTypes
    <3>3. pc["N"] = "callback" => ending = due
      BY <3>1 DEF Sound, Handling
    <3> QED
      BY <3>2, <3>3 DEF LookupFinds, At
  <2> QED
    BY <2>1, <2>2
<1> QED
  BY <1>1, Invariance, PTL

\* No freed channel is used, and the assertion of channel_unregister holds.
THEOREM ListNoFreedNode == Spec => []NoFreedNode
<1>1. IInv => NoFreedNode
  BY DEF IInv, Sound, NoFreedNode
<1> QED
  BY <1>1, Invariance, PTL

=============================================================================
