----------------------------- MODULE MCLiveLoop -----------------------------
(* Small instances of LiveLoop for TLC. *)
EXTENDS LiveLoop, TLC

CONSTANTS o1, o2

(* One order of two shares, fillable in parts, and one of one share. *)
MCQuantity == [o \in Orders |-> IF o = o1 THEN 2 ELSE 1]

(* Every order of one share. *)
MCSingleShares == [o \in Orders |-> 1]

(* Three shares: a replayed partial fill can meet the over-fill guard. *)
MCThreeShares == [o \in Orders |-> 3]

(* The broker's ids are interchangeable. *)
IdSymmetry == Permutations(BrokerIds)
=============================================================================
