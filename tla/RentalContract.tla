--------------------------- MODULE RentalContract ---------------------------
(***************************************************************************)
(* What the ledger and the programs around it promise together, without    *)
(* the programs: a launch is rented, possibly booked, the rental ends, and *)
(* the books on it are closed once, only after its end, and for good.      *)
(***************************************************************************)

CONSTANT Launches

VARIABLES
  rental,  \* launch -> "none", "live" or "gone"
  books    \* launch -> "absent", "open" or "closed"

contractVars == <<rental, books>>

ContractInit ==
  /\ rental = [k \in Launches |-> "none"]
  /\ books = [k \in Launches |-> "absent"]

BeginRental(k) ==
  /\ rental[k] = "none"
  /\ rental' = [rental EXCEPT ![k] = "live"]
  /\ UNCHANGED books

OpenBooks(k) ==
  /\ books[k] = "absent" /\ rental[k] # "none"
  /\ books' = [books EXCEPT ![k] = "open"]
  /\ UNCHANGED rental

EndRental(k) ==
  /\ rental[k] = "live"
  /\ rental' = [rental EXCEPT ![k] = "gone"]
  /\ UNCHANGED books

CloseBooks(k) ==
  /\ books[k] = "open" /\ rental[k] = "gone"
  /\ books' = [books EXCEPT ![k] = "closed"]
  /\ UNCHANGED rental

ContractNext ==
  \E k \in Launches :
    BeginRental(k) \/ OpenBooks(k) \/ EndRental(k) \/ CloseBooks(k)

ContractSpec == ContractInit /\ [][ContractNext]_contractVars
=============================================================================
