---------------------------- MODULE MCGroupSetup ----------------------------
(***************************************************************************)
(* GroupSetup for TLC: two tasks, each on a CPU of its own, and sockets of *)
(* one address, the last one in another network namespace.                 *)
(***************************************************************************)
EXTENDS GroupSetup, TLC

CONSTANTS t1, t2, s1, s2, s3, WorkGens, SockGens, AppArgs, DisArgs,
          AssureArgs

MCNetns == [x \in Sockets |-> IF x = s3 THEN 2 ELSE 1]

Arg(name, word) ==
  [name |-> name, val |-> [Zero EXCEPT !.word = word], len |-> 4]

\* Dissectors by name: the documented forms, a repetition with the verbose flag
\* and one that validation refuses.
Dissectors ==
  "flow" :> [Arg("DISSECTOR", DISSECTOR_FLOW)
               EXCEPT !.val.timeout = 125, !.len = 8]
  @@ "noop" :> Arg("DISSECTOR", DISSECTOR_NOOP)
  @@ "cbpf" :> [Arg("DISSECTOR", DISSECTOR_CBPF)
                  EXCEPT !.val.max_apps = 1, !.val.filter = 1, !.len = 376]
  @@ "loud" :> [Arg("DISSECTOR", DISSECTOR_CBPF + DISSECTOR_FLAG_VERBOSE)
                  EXCEPT !.val.max_apps = 1, !.val.filter = 1, !.len = 632]
  @@ "bespoke" :> [Arg("DISSECTOR", DISSECTOR_BESPOKE)
                     EXCEPT !.val.max_apps = 2, !.val.digest = 7, !.len = 16]
  @@ "wrong" :> [Arg("DISSECTOR", DISSECTOR_FLOW)
                   EXCEPT !.val.max_apps = 1, !.len = 12]

MCOptions ==
  {Arg("WORKING_GEN", g) : g \in WorkGens}
  \cup {Arg("SOCKET_GEN", g) : g \in SockGens}
  \cup {Arg("SOCKET_APP", a) : a \in AppArgs}
  \cup {[Arg("FLOW_ASSURE", f) EXCEPT !.len = 16] : f \in AssureArgs}
  \cup {Dissectors[d] : d \in DisArgs}

Symmetry == Permutations(Tasks)

============================================================================
