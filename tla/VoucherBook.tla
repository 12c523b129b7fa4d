----------------------------- MODULE VoucherBook ------------------------------
(***************************************************************************)
(* What docs/winforge-diesel-exchange.md promises of the voucher ledger,   *)
(* with no file, process or copy in it: a book to which the game appends   *)
(* vouchers and on which WinForge stamps them.  Nothing leaves the book,   *)
(* changes place, or is written twice.                                     *)
(***************************************************************************)
EXTENDS Naturals, Sequences

CONSTANTS
    Ids,      \* what a voucher may be called
    Litres    \* what a voucher may be worth

VARIABLE book

Entry == [id : Ids, litres : Litres \ {0}, consumed : BOOLEAN]

Written(s) == {s[i].id : i \in DOMAIN s}

Init == book = <<>>

Mint(v) ==
    /\ v.id \notin Written(book)
    /\ ~v.consumed
    /\ book' = Append(book, v)

Stamp(i) ==
    /\ ~book[i].consumed
    /\ book' = [book EXCEPT ![i].consumed = TRUE]

(* The voucher a step adds is the last one of the new book.                *)
Next ==
    \/ \E v \in Entry : Mint(v)
    \/ \E i \in DOMAIN book : Stamp(i)

Spec == Init /\ [][Next]_book

=============================================================================
