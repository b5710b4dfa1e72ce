------------------------------ MODULE Bargain ------------------------------
(***************************************************************************)
(* What one thread of a negotiation promises to the two who bargain on it, *)
(* with no invocations and nobody else:                                    *)
(*   - the provider makes one quote, and another one only after the seeker *)
(*     has asked for it, which he does once,                               *)
(*   - one quote is on the table at a time, and what it says never changes,*)
(*   - the seeker decides about the quote on the table, while the thread   *)
(*     is open: he accepts it, turns it down, or asks for another,         *)
(*   - a deal is about the quote on the table, and nothing follows it,     *)
(*   - the end of the inquiry closes a thread that has no deal.            *)
(***************************************************************************)
CONSTANTS Quotes, Amounts

VARIABLES
    talk,    \* the thread
    quoted,  \* the amount of each quote made so far
    table,   \* the quote on the table, or in the deal
    again    \* the seeker has asked for another quote

bargainVars == <<talk, quoted, table, again>>

BargainInit ==
    /\ talk = "ABSENT"
    /\ quoted \in [{} -> Amounts]
    /\ table = {}
    /\ again = FALSE

Open == talk = "ABSENT" /\ talk' = "OPEN" /\ UNCHANGED <<quoted, table, again>>

MayQuote == IF again THEN \A p, q \in DOMAIN quoted : p = q ELSE DOMAIN quoted = {}

MakeQuote(q, a) ==
    /\ talk = "OPEN" /\ table = {} /\ q \notin DOMAIN quoted /\ MayQuote
    /\ quoted' = [p \in DOMAIN quoted \cup {q} |-> IF p = q THEN a ELSE quoted[p]]
    /\ table' = {q}
    /\ UNCHANGED <<talk, again>>

AcceptQuote ==
    /\ talk = "OPEN" /\ table # {}
    /\ talk' = "DEAL_ACCEPTED"
    /\ UNCHANGED <<quoted, table, again>>

TurnDown ==
    /\ talk = "OPEN" /\ table # {}
    /\ table' = {}
    /\ UNCHANGED <<talk, quoted, again>>

AskAgain ==
    /\ talk = "OPEN" /\ DOMAIN quoted # {} /\ ~again
    /\ again' = TRUE /\ table' = {}
    /\ UNCHANGED <<talk, quoted>>

Close == talk = "OPEN" /\ talk' = "CLOSED" /\ UNCHANGED <<quoted, table, again>>

BargainNext ==
    \/ Open \/ AcceptQuote \/ TurnDown \/ AskAgain \/ Close
    \/ \E q \in Quotes, a \in Amounts : MakeQuote(q, a)

BargainSpec == BargainInit /\ [][BargainNext]_bargainVars
=============================================================================
