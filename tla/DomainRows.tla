----------------------------- MODULE DomainRows -----------------------------
(***************************************************************************)
(* What a row of the table of domains says of a certificate and of the     *)
(* paid period, as the clock goes on and the server changes unseen, and    *)
(* the order the table puts the rows in.                                   *)
(***************************************************************************)
EXTENDS Integers

CONSTANT MaxTime      \* bound: the clock, in halves of a day

Day == 2

\* The periods keep their order and are scaled down: 7, 14 and 30 days.
FactsStale  == 2
SslExpiring == 4
ExpirySoon  == 3          \* whole days

Unknown == -1             \* a date that is not there, or cannot be read
Moments == 0..(MaxTime + SslExpiring + 1)

\* A certificate as it is, and as facts tell it: there is one, but not its date
\* (Undated), or openssl could not read its file (ReadError).
NoCert == [has |-> FALSE, exp |-> Unknown, error |-> FALSE]
Until(t) == [has |-> TRUE, exp |-> t, error |-> FALSE]
Undated == [has |-> TRUE, exp |-> Unknown, error |-> FALSE]
ReadError == [has |-> TRUE, exp |-> Unknown, error |-> TRUE]
NoFacts == [ssl |-> NoCert, at |-> Unknown]

\* The paid period ends with a day, or at a moment (as registries say it).
Periods == [whole : BOOLEAN, day : {1}]
NoPeriod == [whole |-> FALSE, day |-> Unknown]

\* How the table may be sorted.
Sorts == [key : {"domain", "ssl", "expiry_date"}, asc : BOOLEAN]

VARIABLES
    now,
    cert,        \* the certificate on the server
    origin,      \* it is no file of Let's Encrypt: the panel alone knows it
    facts,       \* the snapshot the row shows
    paid,        \* the period written in the record
    last         \* when the server was last as each of Aspects says

vars == <<now, cert, origin, facts, paid, last>>

\* There is a certificate in force, one at all, no file of Let's Encrypt.
Aspects == {"in force", "some", "no file"}

TypeOK ==
    /\ now \in 0..MaxTime
    /\ facts.at \in {Unknown} \union 0..now /\ last \in [Aspects -> {Unknown} \union 0..now]
    /\ {cert.exp, facts.ssl.exp} \subseteq {Unknown} \union Moments
    /\ paid \in Periods \union {NoPeriod} /\ origin \in BOOLEAN

InForce(c, t) == c.has /\ c.exp > t

Holds(k, c, o, t) ==
    CASE k = "in force" -> InForce(c, t)
      [] k = "some"     -> c.has
      [] k = "no file"  -> ~c.has \/ o

Note(c, o, t) == last' = [k \in Aspects |-> IF Holds(k, c, o, t) THEN t ELSE last[k]]

Init ==
    /\ now = 0 /\ cert = NoCert /\ origin = FALSE /\ facts = NoFacts
    /\ paid \in Periods \union {NoPeriod}
    /\ last = [k \in Aspects |-> IF Holds(k, NoCert, FALSE, 0) THEN 0 ELSE Unknown]

Tick ==
    /\ now < MaxTime /\ now' = now + 1 /\ Note(cert, origin, now')
    /\ UNCHANGED <<cert, origin, facts, paid>>

\* On the server, unseen: a certificate is issued by Let's Encrypt or set up in the
\* panel (o) for a time, or taken away.
Replace(c, o) ==
    /\ cert # c /\ o => c.has
    /\ cert' = c /\ origin' = o /\ Note(c, o, now)
    /\ UNCHANGED <<now, facts, paid>>

\* What a read tells of it.  A file may defy openssl, or print a date that cannot be
\* parsed; of any other certificate nothing is known when the list of sites has not
\* been read, has no row of the domain, or no date in it.
Told(c, o) ==
    IF ~c.has THEN {NoCert} ELSE IF o THEN {c, NoCert} ELSE {c, Undated, ReadError}

Check(told) ==
    /\ facts' = [ssl |-> told, at |-> now]
    /\ UNCHANGED <<now, cert, origin, paid, last>>

Next ==
    \/ Tick \/ \E told \in Told(cert, origin) : Check(told)
    \/ \E c \in {NoCert, Until(now + 1), Until(now + SslExpiring + 1)}, o \in BOOLEAN : Replace(c, o)

Spec == Init /\ [][Next]_vars
-----------------------------------------------------------------------------
(***************************************************************************)
(* What a row says.  The absence of a certificate and a valid one are      *)
(* claims about now, which a snapshot that is too old cannot make; a date  *)
(* that has passed stays passed.                                           *)
(***************************************************************************)
IsFactsStale(at) == at # Unknown /\ now - at > FactsStale

\* MUTANT of SslState: old facts ground a green badge like new ones.
SslStateOfAnyAge(f) ==
    IF f.at = Unknown THEN "unchecked"
    ELSE IF f.ssl.error THEN "error"
    ELSE IF ~f.ssl.has THEN "missing"
    ELSE IF f.ssl.exp <= now THEN "expired"
    ELSE IF f.ssl.exp - now <= SslExpiring THEN "expiring" ELSE "valid"

SslState(f) ==
    CASE f.at = Unknown -> "unchecked"
      [] f.at # Unknown /\ f.ssl.error -> "error"
      [] f.at # Unknown /\ ~f.ssl.error /\ ~f.ssl.has ->
            IF IsFactsStale(f.at) THEN "unchecked" ELSE "missing"
      [] f.at # Unknown /\ f.ssl.has /\ f.ssl.exp # Unknown /\ f.ssl.exp <= now -> "expired"
      [] f.at # Unknown /\ f.ssl.has /\ f.ssl.exp > now /\ f.ssl.exp - now <= SslExpiring ->
            "expiring"
      [] OTHER -> IF IsFactsStale(f.at) THEN "unchecked" ELSE "valid"

\* A date without a time covers its whole day.
ExpiryTs(p) ==
    IF p.day = Unknown THEN Unknown ELSE IF p.whole THEN (p.day + 1) * Day ELSE p.day * Day + 1

ExpiryState(p) ==
    LET left == (ExpiryTs(p) - now) \div Day IN
    IF ExpiryTs(p) = Unknown THEN "unknown"
    ELSE IF left < 0 THEN "expired" ELSE IF left <= ExpirySoon THEN "soon" ELSE "ok"

SslRank(s) ==
    IF s = "unchecked" THEN Unknown
    ELSE CHOOSE i \in 0..4 : <<"missing", "expired", "expiring", "valid", "error">>[i + 1] = s

\* compareUnknownLast: below zero when the first of the two comes first.
CompareUnknownLast(a, b, asc) ==
    IF a = Unknown /\ b = Unknown THEN 0
    ELSE IF a = Unknown THEN 1 ELSE IF b = Unknown THEN -1
    ELSE IF asc THEN a - b ELSE b - a

\* The rows of the table: this one, and others beside it (a name is its place).
ThisRow == [name |-> 1, facts |-> facts, paid |-> paid]
Others  == [name : {0, 2}, facts : {NoFacts, [ssl |-> NoCert, at |-> 0], [ssl |-> Until(3), at |-> 0]},
            paid : {NoPeriod, [whole |-> TRUE, day |-> 1]}]

Compare(sort, a, b) ==
    LET ranks == CompareUnknownLast(SslRank(SslState(a.facts)), SslRank(SslState(b.facts)),
                                    sort.asc)
        dates == CompareUnknownLast(a.facts.ssl.exp, b.facts.ssl.exp, sort.asc)
        main  == IF sort.key = "domain" THEN (IF sort.asc THEN a.name - b.name ELSE b.name - a.name)
                 ELSE IF sort.key = "ssl" THEN (IF ranks # 0 THEN ranks ELSE dates)
                 ELSE CompareUnknownLast(ExpiryTs(a.paid), ExpiryTs(b.paid), sort.asc)
    IN  IF main # 0 THEN main ELSE a.name - b.name

Known(sort, a) ==
    CASE sort.key = "domain" -> TRUE
      [] sort.key = "ssl" -> SslState(a.facts) # "unchecked"
      [] sort.key = "expiry_date" -> ExpiryState(a.paid) # "unknown"
-----------------------------------------------------------------------------
Recently(k) == last[k] # Unknown /\ now - last[k] <= FactsStale

\* Within the period after which facts are stale, "Valid" was true of a certificate
\* whose date was read, and of one whose date was not read it was true that there
\* was one; "No certificate" is said when Let's Encrypt had no file there within it;
\* "Expired" never of one whose date is ahead when nothing has replaced it.  This is
\* less than domainFacts.ts:218 and 231-232 claim: a certificate that has run out, its
\* date not read, is as green, and one the panel alone knows is missing when the list
\* of sites fails.
BadgeHasGround ==
    /\ SslState(facts) = "valid" => Recently(IF facts.ssl.exp # Unknown THEN "in force" ELSE "some")
    /\ SslState(facts) = "missing" => Recently("no file")
    /\ SslState(facts) = "expired" => cert # facts.ssl \/ ~InForce(cert, now)

\* No domain is called expired on the last day it is paid for.
LastDayIsPaid == paid.whole /\ now \div Day <= paid.day => ExpiryState(paid) # "expired"

\* Whatever the order asked for, rows that have nothing to sort by come last, and
\* of two rows exactly one comes first.
UnknownLast ==
    \A s \in Sorts, o \in Others :
       /\ Known(s, ThisRow) /\ ~Known(s, o) => Compare(s, ThisRow, o) < 0
       /\ Known(s, o) /\ ~Known(s, ThisRow) => Compare(s, o, ThisRow) < 0
       /\ (Compare(s, ThisRow, o) < 0) # (Compare(s, o, ThisRow) < 0)
=============================================================================
