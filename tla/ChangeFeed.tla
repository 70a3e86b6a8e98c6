----------------------------- MODULE ChangeFeed -----------------------------
(***************************************************************************)
(* What a client may rely on in the change log behind Sync, and what the   *)
(* backend has to provide: entries are added above all earlier ones and    *)
(* stay as they are; what a request brings along is in the log, above the  *)
(* checkpoint it asked from, before it is answered; and an answer holds    *)
(* every entry between that checkpoint and the one it hands back.  How far *)
(* an answer gets is not promised: it may stop before the last entry.      *)
(***************************************************************************)
EXTENDS Naturals

CONSTANT Readers   \* requests

VARIABLES
    feed,      \* the entries: [id, change]
    asks,      \* the changes each request has brought along
    answer     \* what each request was answered: none or one [after, ids, upTo]

feeds == <<feed, asks, answer>>

Above(after) == {x \in feed : x.id > after}

Init ==
    /\ feed = {}
    /\ asks = [r \in Readers |-> {}]
    /\ answer = [r \in Readers |-> {}]

\* A request comes with changes, none of which need be new to the feed.
Ask(r) ==
    /\ asks' = [asks EXCEPT ![r] = asks'[r]]
    /\ answer' = [answer EXCEPT ![r] = {}]
    /\ UNCHANGED feed

Add(x) ==
    /\ \A y \in feed : y.id < x.id
    /\ feed' = feed \cup {x}
    /\ UNCHANGED <<asks, answer>>

Answer(r, after, upTo) ==
    /\ asks[r] \subseteq {x.change : x \in Above(after)}
    /\ upTo = after \/ \E x \in Above(after) : x.id = upTo
    /\ asks' = [asks EXCEPT ![r] = {}]
    /\ answer' = [answer EXCEPT ![r] =
            {[after |-> after, ids |-> {x.id : x \in {y \in Above(after) : y.id <= upTo}},
              upTo |-> upTo]}]
    /\ UNCHANGED feed

\* Requests are given up and answers used, several at once when a process dies.
Forget ==
    /\ asks' = [r \in Readers |-> asks'[r]] /\ answer' = [r \in Readers |-> answer'[r]]
    /\ \A r \in Readers : asks'[r] \in {asks[r], {}} /\ answer'[r] \in {answer[r], {}}
    /\ UNCHANGED feed

Next ==
    \/ Forget
    \/ \E x \in feed' : Add(x)
    \/ \E r \in Readers :
        \/ Ask(r)
        \/ \E a \in answer'[r] : Answer(r, a.after, a.upTo)

Spec == Init /\ [][Next]_feeds
=============================================================================
