--------------------------- MODULE CredentialCell ---------------------------
(* What a ChatGPT credential session promises to those who use it: one cell   *)
(* whose credential is only ever replaced by the answer to an exchange of the *)
(* credential it holds, or by a completed login. Nothing that was computed    *)
(* from an older credential is ever written over a newer one.                 *)
EXTENDS Naturals

CONSTANTS Credentials, NoCredential

VARIABLE cell

CellInit == cell \in Credentials \cup {NoCredential}

\* The answer to an exchange of the credential in the cell.
Rotate ==
    \E c \in Credentials :
        /\ cell # NoCredential
        /\ ~c.login
        /\ c.from = cell.id
        /\ cell' = c

\* A completed login, for a new session or for the same account.
Replace == \E c \in Credentials : c.login /\ cell' = c

Remove == cell' = NoCredential

CellNext == Rotate \/ Replace \/ Remove

CellSpec == CellInit /\ [][CellNext]_cell
=============================================================================
