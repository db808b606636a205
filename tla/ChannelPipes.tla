---------------------------- MODULE ChannelPipes ----------------------------
(***************************************************************************)
(* What the channel layer promises its callers: every request has a        *)
(* private, ordered pipe from the server to its callback.  Packets of      *)
(* other requests never show up in it, none is lost, and the pipe closes   *)
(* exactly with the packet that ends the answer.  No channel id, no list   *)
(* and no shared connection appears here; Channels implements this.        *)
(***************************************************************************)
EXTENDS ChannelPackets

VARIABLES
  srv,   \* srv[r]: the server's place in the conversation about r
  said,  \* said[r]: what the server has answered to r
  view,  \* view[r]: what the callback side of r has been given
  open   \* the requests whose pipe is open

pvars == <<srv, said, view, open>>

Init ==
  /\ srv = [r \in Req |-> "idle"]
  /\ said = [r \in Req |-> <<>>]
  /\ view = [r \in Req |-> <<>>]
  /\ open = {}

Ask(r) ==
  /\ srv[r] = "idle"
  /\ srv' = [srv EXCEPT ![r] = FirstPhase(r)]
  /\ open' = open \cup {r}
  /\ UNCHANGED <<said, view>>

\* The request never reached the server; its pipe may be left open for good.
Lose(r) ==
  /\ srv[r] = "idle"
  /\ srv' = [srv EXCEPT ![r] = "lost"]
  /\ open' \in {open, open \cup {r}}
  /\ UNCHANGED <<said, view>>

Say(r) ==
  \E t \in Conversation :
    /\ srv[r] = t[1]
    /\ said' = [said EXCEPT ![r] = Append(@, t[2])]
    /\ srv' = [srv EXCEPT ![r] = t[3]]
    /\ UNCHANGED <<view, open>>

\* The next packet of r's own pipe, and no other, reaches r.  The end of a
\* substream may open the key request of the next track in the same step.
Deliver(r) ==
  /\ r \in open
  /\ Len(view[r]) < Len(said[r])
  /\ view' = [view EXCEPT ![r] = Append(@, said[r][Len(@) + 1])]
  /\ LET left == IF said[r][Len(view[r]) + 1] \in Closing THEN open \ {r} ELSE open
     IN  \/ open' = left /\ UNCHANGED srv
         \/ \E k \in KeyReq \ {r} :
              /\ srv[k] = "idle"
              /\ open' = left \cup {k}
              /\ srv' \in {[srv EXCEPT ![k] = "key"], [srv EXCEPT ![k] = "lost"]}
  /\ UNCHANGED said

Next == \E r \in Req : Ask(r) \/ Lose(r) \/ Say(r) \/ Deliver(r)

Spec == Init /\ [][Next]_pvars
=============================================================================
