----------------------------- MODULE OneTimeCode -----------------------------
(* What a code challenge promises, whoever issues it and however requests    *)
(* interleave: one live code at a time, a bounded number of wrong guesses    *)
(* against it, and a code that is spent once or never.  PasswordReset        *)
(* implements it.                                                            *)
EXTENDS Naturals

CONSTANTS Codes, Attempts

VARIABLES
    status,   \* of each code
    wrong     \* the wrong guesses answered while it was live

Init ==
    /\ status = [c \in Codes |-> "unissued"]
    /\ wrong = [c \in Codes |-> 0]

\* A new code is live, and is the only one.
Issue(c) ==
    /\ status[c] = "unissued"
    /\ status' = [d \in Codes |-> IF d = c THEN "live"
                                  ELSE IF status[d] = "live" THEN "dead" ELSE status[d]]
    /\ UNCHANGED wrong

\* A wrong guess is charged to the live code, and the last one kills it.
Miss(c) ==
    /\ status[c] = "live"
    /\ wrong' = [wrong EXCEPT ![c] = @ + 1]
    /\ status' = [status EXCEPT ![c] = IF wrong[c] + 1 >= Attempts THEN "dead" ELSE "live"]

Redeem(c) ==
    /\ status[c] = "live"
    /\ status' = [status EXCEPT ![c] = "spent"]
    /\ UNCHANGED wrong

\* Expiry, a failed delivery, an account that is no longer entitled to it.
Retire(c) ==
    /\ status[c] = "live"
    /\ status' = [status EXCEPT ![c] = "dead"]
    /\ UNCHANGED wrong

Next == \E c \in Codes : Issue(c) \/ Miss(c) \/ Redeem(c) \/ Retire(c)

Spec == Init /\ [][Next]_<<status, wrong>>
=============================================================================
