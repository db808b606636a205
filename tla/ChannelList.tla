----------------------------- MODULE ChannelList -----------------------------
(***************************************************************************)
(* The list of channels of channel.c statement by statement: Channels      *)
(* takes each call for one step, and here A and D register channels, D     *)
(* takes one back whose request could not be written, and N looks channels *)
(* up, registers the next key's and unregisters, all inside the list at    *)
(* the same time, as nothing in channel.c is locked.                       *)
(*                                                                         *)
(* A node is a cell of memory; malloc may hand out a freed one again.  A   *)
(* read or write of a shared location (head, next_channel_id, a next       *)
(* field) is one step, but that a field compared and then followed is      *)
(* read once.  A new node is private until head points to it, so it is     *)
(* filled in with the step that reads head into it.  What follows the first *)
(* race, the use of a freed node, or a failed assertion is not followed.   *)
(***************************************************************************)
EXTENDS Integers, FiniteSets

CONSTANTS
  Nodes,   \* bound: cells that malloc can hand out
  Nil,     \* the null pointer
  MaxId    \* bound: ids handed out

ASSUME ListAssumption == IsFiniteSet(Nodes) /\ Nil \notin Nodes /\ MaxId \in Nat

Threads == {"A", "D", "N"}

VARIABLES
  head, next,   \* head, next_channel_id
  link,         \* link[n]: n->next
  id,           \* id[n]: n->channel_id
  heap,         \* the nodes that are allocated
  members,      \* the nodes that were linked and are not unlinked
  owed,         \* the channels whose answer is on its way
  due,          \* the channel that N's packet is meant for
  pc,           \* where each thread is
  ptr,          \* the loop variable of each thread
  val,          \* the id a thread has taken, or looks for
  own,          \* the channel a thread registers
  ending,       \* the channel that N's packet found
  raced,        \* one thread has written what another was in the middle of using
  crashed       \* a freed node was used, or the assertion has failed

list == <<head, link, members>>
memory == <<id, heap>>
net == <<owed, due, ending>>
vars == <<next, list, memory, net, pc, ptr, val, own, raced, crashed>>

Init ==
  /\ head = Nil /\ next = 0
  /\ link = [n \in Nodes |-> Nil] /\ id = [n \in Nodes |-> 0]
  /\ heap = {} /\ members = {} /\ owed = {} /\ due = Nil
  /\ pc = [t \in Threads |-> "out"]
  /\ ptr = [t \in Threads |-> Nil] /\ val = [t \in Threads |-> 0]
  /\ own = [t \in Threads |-> Nil] /\ ending = Nil
  /\ raced = FALSE /\ crashed = FALSE

At(t, l) == ~raced /\ ~crashed /\ pc[t] = l
Goto(t, l) == pc' = [pc EXCEPT ![t] = l]

\* A node that has been freed is used.
Use(n) == crashed' = (n \notin heap)

-----------------------------------------------------------------------------
(* Where a thread can be disturbed, and by what. *)

\* t has read head and is about to write it: nobody else may write it.
AtHead(t) == pc[t] \in {"push", "pop"}
\* t looks for the channel before its own: nobody else may unlink one.
Cutting(t) == pc[t] \in {"first", "find", "cut"}
\* t has taken an id and not linked it yet, or unlinked one and not given it back: nobody
\* else may write the counter.
UsesCounter(t) ==
  pc[t] \in {"bump", "start", "scan", "raise", "step", "malloc", "push", "lower", "store"}
\* t is on its way through the list: nobody else may free a channel.
Walks(t) == pc[t] \in {"scan", "raise", "step", "look"}

Another(P(_), t) == \E u \in Threads \ {t} : P(u)

-----------------------------------------------------------------------------
(* channel_register *)

\* id = next_channel_id.  N is in the callback of an ending channel.
Take(t) ==
  /\ IF t = "N" THEN At(t, "callback") ELSE At(t, "out")
  /\ next < MaxId
  /\ val' = [val EXCEPT ![t] = next]
  /\ owed' = IF t = "N" THEN owed \ {due} ELSE owed
  /\ Goto(t, "bump")
  /\ UNCHANGED <<next, list, memory, due, ending, ptr, own, crashed, raced>>

\* The counter is written.
Count(t, n) ==
  /\ next' = n
  /\ raced' = Another(UsesCounter, t)

\* next_channel_id++
Bump(t) ==
  /\ At(t, "bump")
  /\ Count(t, val[t] + 1)
  /\ Goto(t, "start")
  /\ UNCHANGED <<list, memory, net, ptr, val, own, crashed>>

\* On to the channel n of the loop.
Visit(t, n) ==
  /\ ptr' = [ptr EXCEPT ![t] = n]
  /\ Goto(t, IF n = Nil THEN "malloc" ELSE "scan")

\* ch = head
Start(t) ==
  /\ At(t, "start")
  /\ Visit(t, head)
  /\ UNCHANGED <<next, list, memory, net, val, own, crashed, raced>>

\* Slip: only an id above the counter moves it.
ScanAbove(t) ==
  /\ At(t, "scan")
  /\ Use(ptr[t])
  /\ Goto(t, IF id[ptr[t]] > next THEN "raise" ELSE "step")
  /\ UNCHANGED <<next, list, memory, net, ptr, val, own, raced>>

\* ch->channel_id >= next_channel_id?
Scan(t) ==
  /\ At(t, "scan")
  /\ Use(ptr[t])
  /\ Goto(t, IF id[ptr[t]] >= next THEN "raise" ELSE "step")
  /\ UNCHANGED <<next, list, memory, net, ptr, val, own, raced>>

Raise(t) ==
  /\ At(t, "raise")
  /\ Use(ptr[t])
  /\ Count(t, id[ptr[t]] + 1)
  /\ Goto(t, "step")
  /\ UNCHANGED <<list, memory, net, ptr, val, own>>

\* ch = ch->next
Step(t) ==
  /\ At(t, "step")
  /\ Use(ptr[t])
  /\ Visit(t, link[ptr[t]])
  /\ UNCHANGED <<next, list, memory, net, val, own, raced>>

\* Slip: the id is left as malloc returned it.
AllocateBlank(t) ==
  /\ At(t, "malloc")
  /\ \E n \in Nodes \ heap :
       /\ heap' = heap \cup {n}
       /\ own' = [own EXCEPT ![t] = n]
       /\ link' = [link EXCEPT ![n] = head]
  /\ val' = [val EXCEPT ![t] = 0]
  /\ Goto(t, "push")
  /\ UNCHANGED <<next, head, members, id, net, ptr, crashed, raced>>

\* malloc, the fields, and ch->next = head.
Allocate(t) ==
  /\ At(t, "malloc")
  /\ \E n \in Nodes \ heap :
       /\ heap' = heap \cup {n}
       /\ own' = [own EXCEPT ![t] = n]
       /\ id' = [id EXCEPT ![n] = val[t]]
       /\ link' = [link EXCEPT ![n] = head]
  /\ val' = [val EXCEPT ![t] = 0]
  /\ Goto(t, "push")
  /\ UNCHANGED <<next, head, members, net, ptr, crashed, raced>>

\* head = ch, and the call returns.  The request is written, or it is not: then D takes the
\* channel back, and the others leave it.  N goes on to unregister the ending channel.
Push(t) ==
  /\ At(t, "push")
  /\ head' = own[t]
  /\ raced' = Another(AtHead, t)
  /\ members' = members \cup {own[t]}
  /\ \/ /\ \/ owed' = owed \cup {own[t]}
           \/ owed' = owed /\ t # "D"
        /\ own' = [own EXCEPT ![t] = Nil]
        /\ Goto(t, IF t = "N" THEN "test" ELSE "out")
     \/ /\ t = "D"
        /\ Goto(t, "test")
        /\ UNCHANGED <<owed, own>>
  /\ UNCHANGED <<next, link, memory, due, ending, ptr, val, crashed>>

-----------------------------------------------------------------------------
(* channel_unregister *)

Target(t) == IF t = "N" THEN ending ELSE own[t]

\* ch == head?
Test(t) ==
  /\ At(t, "test")
  /\ Goto(t, IF head = Target(t) THEN "pop" ELSE "first")
  /\ UNCHANGED <<next, list, memory, net, ptr, val, own, crashed, raced>>

\* Slip: the channel is freed as soon as it is not the head any more.
PopAndFree(t) ==
  /\ At(t, "pop")
  /\ Use(Target(t))
  /\ head' = link[Target(t)]
  /\ raced' = (Another(AtHead, t) \/ Another(Cutting, t))
  /\ members' = members \ {Target(t)}
  /\ heap' = heap \ {Target(t)}
  /\ Goto(t, "lower")
  /\ UNCHANGED <<next, link, id, net, ptr, val, own>>

\* head = ch->next
Pop(t) ==
  /\ At(t, "pop")
  /\ Use(Target(t))
  /\ head' = link[Target(t)]
  /\ raced' = (Another(AtHead, t) \/ Another(Cutting, t))
  /\ members' = members \ {Target(t)}
  /\ Goto(t, "lower")
  /\ UNCHANGED <<next, link, memory, net, ptr, val, own>>

\* tmp = head; the assertion fails on an empty list.
First(t) ==
  /\ At(t, "first")
  /\ ptr' = [ptr EXCEPT ![t] = head]
  /\ crashed' = (head = Nil)
  /\ Goto(t, "find")
  /\ UNCHANGED <<next, list, memory, net, val, own, raced>>

\* tmp->next == ch?  The assertion fails at the end of the list.
Find(t) ==
  /\ At(t, "find")
  /\ IF link[ptr[t]] = Target(t)
     THEN Goto(t, "cut") /\ UNCHANGED ptr
     ELSE ptr' = [ptr EXCEPT ![t] = link[@]] /\ UNCHANGED pc
  /\ crashed' = (ptr[t] \notin heap \/ ptr'[t] = Nil)
  /\ UNCHANGED <<next, list, memory, net, val, own, raced>>

\* Slip: what comes after the channel is cut off with it.
CutOff(t) ==
  /\ At(t, "cut")
  /\ Use(ptr[t])
  /\ link' = [link EXCEPT ![ptr[t]] = Nil]
  /\ raced' = Another(Cutting, t)
  /\ members' = members \ {Target(t)}
  /\ ptr' = [ptr EXCEPT ![t] = Nil]
  /\ Goto(t, "lower")
  /\ UNCHANGED <<next, head, memory, net, val, own>>

\* tmp->next = ch->next
Cut(t) ==
  /\ At(t, "cut")
  /\ Use(ptr[t])
  /\ link' = [link EXCEPT ![ptr[t]] = link[Target(t)]]
  /\ raced' = Another(Cutting, t)
  /\ members' = members \ {Target(t)}
  /\ ptr' = [ptr EXCEPT ![t] = Nil]
  /\ Goto(t, "lower")
  /\ UNCHANGED <<next, head, memory, net, val, own>>

\* ch->channel_id < next_channel_id?
Lower(t) ==
  /\ At(t, "lower")
  /\ Use(Target(t))
  /\ Goto(t, IF id[Target(t)] < next THEN "store" ELSE "free")
  /\ UNCHANGED <<next, list, memory, net, ptr, val, own, raced>>

Store(t) ==
  /\ At(t, "store")
  /\ Use(Target(t))
  /\ Count(t, id[Target(t)])
  /\ Goto(t, "free")
  /\ UNCHANGED <<list, memory, net, ptr, val, own>>

\* free(ch).  What a freed node holds is not looked at before the node is allocated again.
Free(t) ==
  /\ At(t, "free")
  /\ heap' = heap \ {Target(t)}
  /\ link' = [link EXCEPT ![Target(t)] = Nil]
  /\ id' = [id EXCEPT ![Target(t)] = 0]
  /\ raced' = Another(Walks, t)
  /\ IF t = "N" THEN ending' = Nil /\ due' = Nil /\ UNCHANGED own
                ELSE own' = [own EXCEPT ![t] = Nil] /\ UNCHANGED <<ending, due>>
  /\ Goto(t, "out")
  /\ UNCHANGED <<next, head, members, owed, ptr, val, crashed>>

-----------------------------------------------------------------------------
(* channel_process, channel_by_id: N looks up the channel of a packet. *)

Packet ==
  /\ At("N", "out")
  /\ \E n \in owed : due' = n /\ val' = [val EXCEPT !["N"] = id[n]]
  /\ ptr' = [ptr EXCEPT !["N"] = head]
  /\ Goto("N", "look")
  /\ UNCHANGED <<next, list, memory, owed, ending, own, crashed, raced>>

\* The packet of a channel that is not there is dropped; an answer may have more packets,
\* and its last one ends it.
Look ==
  /\ At("N", "look")
  /\ \/ /\ ptr["N"] = Nil
        /\ Goto("N", "out")
        /\ due' = Nil /\ owed' = owed \ {due}
        /\ val' = [val EXCEPT !["N"] = 0]
        /\ UNCHANGED <<ptr, ending, crashed>>
     \/ /\ ptr["N"] # Nil /\ id[ptr["N"]] # val["N"]
        /\ Use(ptr["N"])
        /\ ptr' = [ptr EXCEPT !["N"] = link[@]]
        /\ UNCHANGED <<pc, due, owed, val, ending>>
     \/ /\ ptr["N"] # Nil /\ id[ptr["N"]] = val["N"]
        /\ Use(ptr["N"])
        /\ ending' = ptr["N"]
        /\ ptr' = [ptr EXCEPT !["N"] = Nil] /\ val' = [val EXCEPT !["N"] = 0]
        /\ Goto("N", "callback")
        /\ UNCHANGED <<due, owed>>
  /\ UNCHANGED <<next, list, memory, own, raced>>

\* The callback returns: a packet of headers or data is done with, the last one has the
\* channel unregistered.
Callback ==
  /\ At("N", "callback")
  /\ Use(ending)
  /\ \/ /\ Goto("N", "out")
        /\ ending' = Nil /\ due' = Nil
        /\ UNCHANGED owed
     \/ /\ Goto("N", "test")
        /\ owed' = owed \ {due}
        /\ UNCHANGED <<ending, due>>
  /\ UNCHANGED <<next, list, memory, ptr, val, own, raced>>

-----------------------------------------------------------------------------

Register(t) == Take(t) \/ Bump(t) \/ Start(t) \/ Scan(t) \/ Raise(t) \/ Step(t) \/ Allocate(t) \/ Push(t)

Unregister(t) == Test(t) \/ Pop(t) \/ First(t) \/ Find(t) \/ Cut(t) \/ Lower(t) \/ Store(t) \/ Free(t)

Next ==
  \/ \E t \in Threads : Register(t) \/ Unregister(t)
  \/ Packet \/ Look \/ Callback

Spec == Init /\ [][Next]_vars

-----------------------------------------------------------------------------
(* Properties. *)

Places == {"out", "bump", "start", "scan", "raise", "step", "malloc", "push",
           "test", "pop", "first", "find", "cut", "lower", "store", "free", "look", "callback"}

\* Types of the variables.
ListTypes ==
  /\ head \in Nodes \cup {Nil} /\ link \in [Nodes -> Nodes \cup {Nil}]
  /\ next \in Nat /\ id \in [Nodes -> Nat]
  /\ heap \subseteq Nodes /\ members \subseteq Nodes
NetTypes == owed \subseteq Nodes /\ due \in Nodes \cup {Nil} /\ ending \in Nodes \cup {Nil}
ThreadTypes ==
  /\ pc \in [Threads -> Places] /\ val \in [Threads -> Nat]
  /\ ptr \in [Threads -> Nodes \cup {Nil}] /\ own \in [Threads -> Nodes \cup {Nil}]
FlagTypes == raced \in BOOLEAN /\ crashed \in BOOLEAN
TypeOK == ListTypes /\ NetTypes /\ ThreadTypes /\ FlagTypes

\* Where k steps along the list lead.
Nth[k \in Nat] == IF k = 0 THEN head ELSE IF Nth[k - 1] = Nil THEN Nil ELSE link[Nth[k - 1]]
Reached == {Nth[k] : k \in 0..Cardinality(Nodes)}

\* The list runs through the registered channels and nothing else and comes to an end, with
\* any number of threads inside, until one writes head or a link that another is using
\* (AtHead, Cutting): registering while another looks up, scans, or looks for its channel in
\* the middle of the list loses nothing (channel_register, channel_unregister).
ListIsWhole == raced \/ Reached = members \cup {Nil}

\* No two registered channels have one id, nor is the next id in use while nobody is inside
\* the counter (UsesCounter).  A channel's id is not safe when it is taken but when the
\* channel is linked, and not free when the channel is unlinked but when it is given back.
IdsStayDistinct ==
  \/ raced
  \/ /\ \A m, n \in members : m # n => id[m] # id[n]
     /\ (\A t \in Threads : ~UsesCounter(t)) => \A n \in members : id[n] # next

\* N finds the channel its packet is meant for, also while others register, scan, and are
\* half-way through unlinking (channel_process, channel_by_id).
LookupFinds ==
  \/ raced
  \/ /\ At("N", "look") => ptr["N"] # Nil
     /\ At("N", "callback") => ending = due

\* No freed channel is used, and the assertion of channel_unregister holds: the channel N
\* unregisters and the one D takes back are in the list.
NoFreedNode == crashed => raced
=============================================================================
