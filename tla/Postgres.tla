------------------------------ MODULE Postgres ------------------------------
(***************************************************************************)
(* The part of PostgreSQL that the store in db/sqlc relies on and that is  *)
(* not in the repository: row locks and the range of a BIGINT column.      *)
(* Everything here is external: it is modelled from the statements the     *)
(* code sends and from the schema in db/migrations.                        *)
(*                                                                         *)
(* The pool is opened with default options (cmd/main.go), so transactions  *)
(* run at READ COMMITTED: a statement sees the rows committed when it      *)
(* starts, an UPDATE that had to wait for a row re-reads the row it gets,  *)
(* and row locks are kept until the transaction ends.                      *)
(***************************************************************************)
EXTENDS Integers

CONSTANTS
    MinBigint,  \* smallest value of a BIGINT column
    MaxBigint   \* largest value of a BIGINT column

ASSUME BigintAssumption ==
    /\ MinBigint \in Int
    /\ MaxBigint \in Int
    /\ MinBigint <= 0
    /\ 0 <= MaxBigint

Bigint == MinBigint .. MaxBigint

(***************************************************************************)
(* Row locks, from the weakest:                                            *)
(*   KeyShare     taken on the referenced row by the check of a foreign    *)
(*                key when a referencing row is inserted;                  *)
(*   NoKeyUpdate  taken by an UPDATE that changes no column of a unique    *)
(*                index (balance is in none);                              *)
(*   Update       taken by a DELETE.                                       *)
(***************************************************************************)
RowLock == {"KeyShare", "NoKeyUpdate", "Update"}

\* Two transactions may not hold these two locks on one row.
Conflict(held, wanted) ==
    \/ held = "Update"
    \/ wanted = "Update"
    \/ held = "NoKeyUpdate" /\ wanted = "NoKeyUpdate"

=============================================================================
