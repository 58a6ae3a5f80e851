---------------------------- MODULE MCTaskLeases ----------------------------
(* Small instances of TaskLeases: two clients, an order and a scan key or two *)
(* orders, and three submits that overlap in every way.                       *)
EXTENDS TaskLeases, TLC

CONSTANTS r1, r2, r3, alice, bob, orderA, scan

MCOwnerOf == r1 :> alice @@ r2 :> bob @@ r3 :> alice
MCOwnerOf2 == r1 :> alice @@ r2 :> bob
MCNeeds == r1 :> {orderA} @@ r2 :> {orderA, scan} @@ r3 :> {scan}
MCNeeds2 == r1 :> {orderA} @@ r2 :> {orderA, scan}
=============================================================================
