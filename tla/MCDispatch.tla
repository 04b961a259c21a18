----------------------------- MODULE MCDispatch -----------------------------
(* Instances of Dispatch for TLC.                                          *)
EXTENDS Dispatch, TLC

CONSTANTS s1, s2, s3, h1

Packet(verdict, mdhash, app, gen, idx) ==
  [verdict |-> verdict, hash |-> h1, mdhash |-> mdhash, app |-> app,
   gen |-> gen, idx |-> idx]

\* Packets of one flow and packets that are too short, for the flow table.
FlowPackets == {Packet(v, 0, 0, 0, 0) : v \in {"ok", "load_error"}}

\* One packet of every kind that a filter can tell apart: new flows of two
\* applications and of an application number out of range among them.
FilterPackets ==
  {Packet(v, 0, 0, 0, 0) : v \in {"prog_error", "bad_cookie", "new"}}
  \cup {Packet("app", 1, a, 0, 0) : a \in 1 .. 2}
  \cup {Packet("cookie", 0, 0, 1, 0)}
AllPackets == FlowPackets \cup FilterPackets

\* The flow table multiplies the states of every other part: one packet and a
\* fixed working generation with it, more without.
SmallFlow == [d \in Dissectors |-> IF d = "FLOW" THEN 1 ELSE 2]
OnePacket == [d \in Dissectors |-> 1]
NoPackets == [d \in Dissectors |-> 0]
FixedWithFlow == [d \in Dissectors |-> IF d = "FLOW" THEN {} ELSE {1}]
Generation1 == [d \in Dissectors |-> {1}]

\* Sockets s2 and s3 have the same application and generation everywhere, and
\* a key has one element at most, so that Lookup distinguishes none.
Symmetry ==
  Permutations(TxTasks) \cup Permutations({s2, s3}) \cup Permutations(Elems)

OneApp == [x \in Ours |-> 0]
TwoApps == [x \in Ours |-> IF x = s1 THEN 0 ELSE 1]
TwoGens == [x \in Ours |-> IF x = s1 THEN 0 ELSE 1]
=============================================================================
