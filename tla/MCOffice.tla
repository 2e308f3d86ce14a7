------------------------------ MODULE MCOffice ------------------------------
(***************************************************************************)
(* A small instance of Office for TLC.  Two tabs and a refund are at one   *)
(* bill, with two webhooks.  Two billing runs and the office are at an     *)
(* agreement and a contract without one, whose periods are billed, voided  *)
(* and billed again; Ann and Bob have referred each other, and credit      *)
(* covers a whole bill; two runs spend the credit Bob has from Ann's       *)
(* contract on his own two.  Four months of two days make a year, two of   *)
(* them a season.                                                          *)
(***************************************************************************)
EXTENDS Office, TLC

CONSTANTS r1, r2, x1, x2, ann, bob, boss, chief, rep, desk, here, there

PlainBills ==
  [contracts |-> {"k1", "k2"}, agreements |-> {"k1"}, runs |-> {r1, r2}, months |-> 1, tries |-> 3, moves |-> 2,
   ownerOf |-> [c \in {"k1", "k2"} |-> "ann"], referrerOf |-> [c \in {"k1", "k2"} |-> "none"]]

CrossedBills ==
  [contracts |-> {"k1", "k2"}, agreements |-> {"k1", "k2"}, runs |-> {r1}, months |-> 2, tries |-> 2, moves |-> 1,
   ownerOf |-> "k1" :> "ann" @@ "k2" :> "bob", referrerOf |-> "k1" :> "bob" @@ "k2" :> "ann"]

SharedBills ==
  [contracts |-> {"k1", x1, x2}, agreements |-> {"k1", x1, x2}, runs |-> {r1, r2}, months |-> 2, tries |-> 1, moves |-> 0,
   ownerOf |-> "k1" :> "ann" @@ x1 :> "bob" @@ x2 :> "bob", referrerOf |-> "k1" :> "bob" @@ x1 :> "none" @@ x2 :> "none"]

RecordRole     == [s \in Staff |-> CASE s \in {boss, chief} -> "corporate" [] s = rep -> "sales" [] OTHER -> "branch"]
RecordBranch   == [x \in Staff \cup Customers |-> IF x \in {bob, chief} THEN there ELSE here]
RecordSeller   == [x \in Customers \cup Branches |-> rep]
RecordReferrer == [c \in Customers |-> IF c = ann THEN bob ELSE Nobody]

Symmetry == {p @@ q : p \in Permutations({r1, r2}), q \in Permutations({x1, x2})}
=============================================================================
