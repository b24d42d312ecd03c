------------------------------ MODULE BlockMap ------------------------------
(***************************************************************************)
(* What the basic-block manager of the function translator promises       *)
(* (spec 4.4 and the "block uniqueness" and "placeholder discipline"      *)
(* properties of spec 8), stated without the IR:                          *)
(*                                                                         *)
(*  - an address gets a block at most once, and never a block another     *)
(*    address already has: the block get_or_create returns for an         *)
(*    address is the same on every later call;                            *)
(*  - a block starts as a placeholder (trap; unreachable) or is opened     *)
(*    directly, a placeholder is changed only by opening it, and a block  *)
(*    is opened for insertion at most once.                               *)
(***************************************************************************)
CONSTANTS
  Addr,     \* the code addresses blocks can be created for
  NoBlock   \* blockOf of an address without block

VARIABLES
  status,   \* address -> "none", "placeholder" or "filled"
  blockOf   \* address -> its block, or NoBlock

Init ==
  /\ status = [a \in Addr |-> "none"]
  /\ blockOf = [a \in Addr |-> NoBlock]

\* Blocks already given to some address.
Used == {blockOf[a] : a \in Addr} \ {NoBlock}

\* The address a gets a block no address had.
Fresh(a) ==
  /\ blockOf'[a] \notin Used \cup {NoBlock}
  /\ blockOf' = [blockOf EXCEPT ![a] = blockOf'[a]]

\* get_or_create(a) for an address without block: a new placeholder.
Create(a) ==
  /\ status[a] = "none"
  /\ Fresh(a)
  /\ status' = [status EXCEPT ![a] = "placeholder"]

\* Opening the placeholder at a for insertion.
Fill(a) ==
  /\ status[a] = "placeholder"
  /\ status' = [status EXCEPT ![a] = "filled"]
  /\ UNCHANGED blockOf

\* Opening an address that had no block yet: created and opened at once.
CreateFilled(a) ==
  /\ status[a] = "none"
  /\ Fresh(a)
  /\ status' = [status EXCEPT ![a] = "filled"]

Next == \E a \in Addr : Create(a) \/ Fill(a) \/ CreateFilled(a)

Spec == Init /\ [][Next]_<<status, blockOf>>

=============================================================================
