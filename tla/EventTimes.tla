------------------------------ MODULE EventTimes ------------------------------
(***************************************************************************)
(* SSHParser (backend/parsers/ssh_parser.py): the time a log line gets,    *)
(* whether the line is accepted, and the key of its event.  sshd writes    *)
(* lines, the collector parses each some time later, and once more when    *)
(* its cursor was lost; meanwhile years pass and the local clock may be    *)
(* set back.                                                               *)
(*                                                                         *)
(* Times are local and naive, in units of which a year has a few; a unit   *)
(* is what one event key tells apart.  The text of a line is what the      *)
(* regular expressions find in it.                                         *)
(***************************************************************************)
EXTENDS Naturals, FiniteSets

CONSTANTS
    Year,           \* units in a year
    Tolerance,      \* units a time may lie in the future, 5 minutes in the code
    Shift,          \* units the local clock is set back by, as in autumn
    Users, Bad,     \* user names, and what no validator accepts
    Texts,          \* the lines sshd writes, but for their time
    MaxTime,        \* bound: the clock stops here
    MaxWritten,     \* bound: lines written
    MaxReads,       \* bound: lines parsed
    MaxShifts       \* bound: times the clock is set back

ASSUME YearAssumption == Year \in Nat \ {0}
ASSUME BoundsAssumption ==
    {Tolerance, Shift, MaxTime, MaxWritten, MaxReads, MaxShifts} \subseteq Nat

YearOf(time) == time \div Year

VARIABLES
    now,            \* datetime.now()
    shifts,
    lines,          \* the lines written; no definition needs their order
    reads           \* history: each parsing as [line, at, out]

parserVars == <<now, shifts, lines, reads>>

\* How a line shows its time.  "iso" has a date and a time; "syslog" has no
\* year; "other" has a date the code does not read, as of RFC 3339; "none" is
\* the bare message.
Styles == {"iso", "syslog", "other", "none"}

\* What the patterns recognise.  A "marked" line has the words of a failure and
\* no pattern that matches; a "foreign" line has neither.
Reasons == [failed |-> "Failed password",
            failed_invalid |-> "Failed password for invalid user",
            invalid |-> "Invalid user"]
Forms == DOMAIN Reasons \union {"marked", "foreign"}

Line == [style: Styles, form: Forms, user: Users \union {Bad}, written: Nat]

ASSUME TextsAssumption ==
    Texts \subseteq [style: Styles, form: Forms, user: Users \union {Bad}]

NoEvent == [kind |-> "none"]
Refused == [kind |-> "refused"]

----------------------------------------------------------------------------
(* parse_line *)

\* Mutant: the year is that in which the process was started.
StampYear_Started(at) == 0

StampYear(at) == YearOf(at)

\* Mutant: a time that would lie in the future is put into the year before.
Stamp_YearBefore(line, at) ==
    LET stamp == StampYear(at) * Year + (line.written % Year) IN
    CASE line.style = "iso"  -> line.written
      [] line.style = "none" -> at
      [] OTHER -> IF stamp > at + Tolerance /\ YearOf(at) > 0 THEN stamp - Year ELSE stamp

\* _extract_timestamp
Stamp(line, at) ==
    CASE line.style = "iso"    -> line.written
      [] line.style = "syslog" -> StampYear(at) * Year + (line.written % Year)
      [] line.style = "none"   -> at

\* _validate_timestamp
NotFuture(stamp, at) == stamp <= at + Tolerance

\* The validators of address, port and user name.
Valid(line) == line.user # Bad

\* parse_line and is_valid: None, a ValueError, or the event.
Parse(line, at) ==
    IF line.form = "foreign" THEN NoEvent
    ELSE IF line.form = "marked" \/ line.style = "other" \/ ~Valid(line) THEN Refused
    ELSE IF ~NotFuture(Stamp(line, at), at) THEN Refused
    ELSE [kind |-> "event", stamp |-> Stamp(line, at), user |-> line.user,
          reason |-> Reasons[line.form]]

\* Mutant: the key has no reason.
Key_NoReason(event) == <<event.stamp, event.user>>

\* event_key; user stands for address, port and user name.
Key(event) == <<event.stamp, event.user, event.reason>>

----------------------------------------------------------------------------

ParserInit ==
    /\ now = 0
    /\ shifts = 0
    /\ lines = {}
    /\ reads = {}

Tick ==
    /\ now < MaxTime
    /\ now' = now + 1
    /\ UNCHANGED <<shifts, lines, reads>>

SetBack ==
    /\ shifts < MaxShifts /\ now >= Shift
    /\ shifts' = shifts + 1
    /\ now' = now - Shift
    /\ UNCHANGED <<lines, reads>>

\* sshd or journald.
WriteLine ==
    /\ Cardinality(lines) < MaxWritten
    /\ \E text \in Texts :
        lines' = lines \union {[style |-> text.style, form |-> text.form,
                                 user |-> text.user, written |-> now]}
    /\ UNCHANGED <<now, shifts, reads>>

Read ==
    /\ Cardinality(reads) < MaxReads
    /\ \E line \in lines :
        reads' = reads \union {[line |-> line, at |-> now, out |-> Parse(line, now)]}
    /\ UNCHANGED <<now, shifts, lines>>

ParserNext == Tick \/ SetBack \/ WriteLine \/ Read

ParserSpec == ParserInit /\ [][ParserNext]_parserVars

----------------------------------------------------------------------------
(* Properties.                                                             *)

Events == {r \in reads : r.out.kind = "event"}
HasStamp(line) == line.style \in {"iso", "syslog"}
SameYear(r) == YearOf(r.line.written) = YearOf(r.at)

\* The time of an event is that of the attempt if the line shows a year or is
\* read in the year it was written.  A line read later gets a later year, never
\* an earlier one (ssh_parser.py:289-302).  A complete line with a time is
\* refused only when the clock has been set back by more than the tolerance
\* since it was written, or when the year has turned between writing and
\* reading and the line has no year (ssh_parser.py:83-86).
StampsHonest ==
    /\ \A r \in Events :
        /\ HasStamp(r.line) /\ r.at >= r.line.written => r.out.stamp >= r.line.written
        /\ (r.line.style = "iso" \/ (r.line.style = "syslog" /\ SameYear(r)))
             => r.out.stamp = r.line.written
    /\ \A r \in reads :
        r.out = Refused /\ HasStamp(r.line) /\ r.line.form \in DOMAIN Reasons
            /\ r.line.user # Bad
          => \/ (shifts > 0 /\ r.line.written > r.at + Tolerance)
             \/ (r.line.style = "syslog" /\ ~SameYear(r))

\* A line that is read again is the same event, unless it has no time of its
\* own, or no year and is read in another (ssh_parser.py:21-25).
RereadOnce ==
    \A r, s \in Events :
        r.line = s.line /\ Key(r.out) # Key(s.out)
          => \/ r.line.style = "none"
             \/ (r.line.style = "syslog" /\ YearOf(r.at) # YearOf(s.at))

\* Two attempts are one event only if they agree in all the parser extracts and
\* happened at one time by the local clock; or if one of them has no time of its
\* own; or if a line that has no year was read in a later one.
KeysTellApart ==
    \A r, s \in Events :
        Key(r.out) = Key(s.out)
          => /\ r.line.user = s.line.user /\ r.line.form = s.line.form
             /\ \/ r.line.written = s.line.written
                \/ "none" \in {r.line.style, s.line.style}
                \/ \E q \in {r, s} : q.line.style = "syslog" /\ ~SameYear(q)

=============================================================================
