------------------------------- MODULE Accounts -------------------------------
(***************************************************************************)
(* Users: registration and login (app/routers/auth.py).  An address keeps  *)
(* the capitals it is registered with: the schema's EmailStr normalises    *)
(* the domain only.                                                        *)
(***************************************************************************)
EXTENDS Naturals, FiniteSets, Sequences

CONSTANTS
    Boxes,            \* mailboxes
    Visitors,         \* people who register; each has a password of their own
    NoAccount         \* no user has this address

VARIABLES
    accounts,       \* accounts[e]: whose password the users row of e has, or NoAccount
    visit           \* visit[v]: v's POST /auth/register

accountVars == <<accounts, visit>>

\* capitals: the part before the @ is not all lower case.
Address == [box : Boxes, capitals : BOOLEAN]

ASSUME AccountsAssumption == NoAccount \notin Visitors

HasAccount(e) == accounts[e] # NoAccount

-----------------------------------------------------------------------------
(* POST /auth/register: look the address up, then insert. *)

\* Found free and about to be inserted; or how the visit ended.
VisitSteps == {"insert", "created", "conflict", "error"}

LookUpEmail(v) ==
    /\ visit[v].step = "new"
    /\ \E e \in Address :
          visit' = [visit EXCEPT ![v] =
                      [step |-> IF HasAccount(e) THEN "conflict" ELSE "insert", email |-> e]]
    /\ UNCHANGED accounts

\* Mutant: an address that exists by now is updated.
InsertUser_Upsert(v) ==
    LET e == visit[v].email
    IN  /\ visit[v].step = "insert"
        /\ accounts' = [accounts EXCEPT ![e] = v]
        /\ visit' = [visit EXCEPT ![v].step = "created"]

\* The unique index refuses an address that was inserted in between: that
\* commit raises and the visitor gets a server error.  The welcome event that
\* follows a commit changes neither the account nor the answer.
InsertUser(v) ==
    LET e == visit[v].email
    IN  /\ visit[v].step = "insert"
        /\ accounts' = IF HasAccount(e) THEN accounts ELSE [accounts EXCEPT ![e] = v]
        /\ visit' = [visit EXCEPT ![v].step = IF HasAccount(e) THEN "error" ELSE "created"]

\* POST /auth/login: the address as registered, with its password.
CanLogin(e, password) == HasAccount(e) /\ accounts[e] = password

-----------------------------------------------------------------------------

AccountsInit ==
    /\ accounts = [e \in Address |-> NoAccount]
    /\ visit = [v \in Visitors |-> [step |-> "new"]]

AccountsNext == \E v \in Visitors : LookUpEmail(v) \/ InsertUser(v)

-----------------------------------------------------------------------------
(* Properties. *)

\* Every variable keeps its type.
AccountsTypeOK ==
    /\ accounts \in [Address -> Visitors \cup {NoAccount}]
    /\ visit \in [Visitors -> [step : {"new"}] \cup [step : VisitSteps, email : Address]]

\* Who was told the account was created has that account: of two visitors who
\* register one address at the same time, the one with the 201 can log in, and
\* the other's password never replaces theirs.
RegisteredCanLogin ==
    \A v \in Visitors : visit[v].step = "created" => CanLogin(visit[v].email, v)

=============================================================================
