---------------------------- MODULE MCDpkiPlatform ----------------------------
(***************************************************************************)
(* Instances of DpkiPlatform: one subject is re-issued by m1, the other by *)
(* m2 and m3.                                                              *)
(***************************************************************************)
EXTENDS DpkiPlatform, TLC

CONSTANTS s1, s2, m1, m2, m3, a1

MCSlots    == {s1, s2}
MCMgmt     == {m1, m2, m3}
MCSlotOf   == m1 :> s1 @@ m2 :> s2 @@ m3 :> s2
MCAuths    == {a1}
MCAuthSlot == a1 :> s1
===============================================================================
