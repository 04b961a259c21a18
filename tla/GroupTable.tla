----------------------------- MODULE GroupTable -----------------------------
(***************************************************************************)
(* The shape of a reuseport group: struct reuseport_storage keeps a table  *)
(* of socket cookies with one row per generation, and every application    *)
(* of the group owns a slice of the rows.                                  *)
(***************************************************************************)
EXTENDS Integers

CONSTANTS MAX_GENS, MAX_SOCKETS_IN_GEN, MAX_APPS

ASSUME SizeAssumption ==
  /\ MAX_APPS \in Nat \ {0}
  /\ MAX_GENS \in Nat /\ MAX_GENS >= MAX_APPS
  /\ MAX_SOCKETS_IN_GEN \in Nat \ {0}

GenIds == 0 .. MAX_GENS - 1
Idx == 0 .. MAX_SOCKETS_IN_GEN - 1
Apps == 0 .. MAX_APPS - 1

\* TO_WRK_GEN: every application has its own slice of the generations.
TO_WRK_GEN_NoSlice(apps, app, gen) == app + gen
TO_WRK_GEN(apps, app, gen) ==
  LET slot_size == MAX_GENS \div (IF apps = 0 THEN 1 ELSE apps)
  IN  (app * slot_size) + (gen % slot_size)

\* The row that the callers of TO_WRK_GEN index, always modulo MAX_GENS.
Row(apps, app, gen) == TO_WRK_GEN(apps, app, gen) % MAX_GENS
=============================================================================
