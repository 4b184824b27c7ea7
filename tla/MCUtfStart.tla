----------------------------- MODULE MCUtfStart -----------------------------
(* Jobs of three processes for UtfStart.                                   *)
EXTENDS UtfStart

ThreeProcs == 0 .. 2
CrowdAndPair == {<<"A", "A", "A">>, <<"B", "A", "A">>}
PlacesOf == {[p \in 0 .. 2 |-> s[p + 1]] : s \in CrowdAndPair}

MainProgram ==
  <<"init", "init", "shm_init", "fence", "store", "shm_finalize", "fence", "fence",
    "shm_init", "finalize", "finalize">>

(* in the second job the process manager asks first                        *)
TwoPrograms == <<MainProgram, <<"resolve">> \o MainProgram>>
=============================================================================
