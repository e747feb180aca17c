------------------------------- MODULE Tailer -------------------------------
(***************************************************************************)
(* pz/logs.go: the Tailer that follows the game's log, one file a day, by    *)
(* polling.  The game, external, appends to the newest file, begins the next *)
(* day's, and files are cut short or taken away under the tailer.            *)
(*                                                                          *)
(* One kind of log is modelled: Poll treats each on its own.  A file is a    *)
(* sequence of bytes; a line is LineSize bytes of its number and a 0, its    *)
(* newline.  The game may stop in the middle of a line.                      *)
(***************************************************************************)
EXTENDS Integers, Sequences, SequencesExt, FiniteSets

CONSTANTS Days,         \* the files' names, in their order
          LineSize,
          Writes,       \* how many bytes the game may write at a time
          MaxRead,      \* 512 KiB
          MaxOffsets,   \* 64
          MaxEntries,   \* Poll's limit
          MaxLines,     \* bound: lines written
          MaxCuts       \* bound: files cut short or taken away

ASSUME TailAssumption ==
    /\ Days \subseteq Nat \ {0} /\ IsFiniteSet(Days) /\ 1 \in Days
    /\ LineSize \in Nat \ {0} /\ Writes \subseteq Nat \ {0}
    /\ MaxRead \in Nat /\ MaxOffsets \in Nat \ {0} /\ MaxEntries \in Nat \ {0}
    /\ MaxLines \in Nat \ {0} /\ MaxCuts \in Nat

VARIABLES logs,         \* what the files hold, for those there are, but for ...
          written,      \* bytes written so far, but for ...
          half,         \* ... the bytes of a line begun at the end of the newest
          cuts,
          offsets,      \* Tailer.offsets
          warmed,
          reading,      \* the file Poll reads and from where; None between polls
          caughtUp,     \* history: the last step was a poll's, at the end of the log
          heard,        \* history: the entries Poll returned, oldest first, until it
                        \* went astray
          owed,         \* history: lines that a poll has to return
          astray        \* history: an offset may not be where the lines unread begin:
                        \* a poll found half a line, or its limit in one, a line was
                        \* broken off, or a cut file grew back before a poll read it

tailVars == <<logs, written, half, cuts, offsets, warmed, reading, caughtUp, heard,
              owed, astray>>

None == [day |-> 0, at |-> 0]
Newest == CHOOSE d \in DOMAIN logs : \A e \in DOMAIN logs : e <= d

Stream == [k \in 1..MaxLines * (LineSize + 1) |->
             IF k % (LineSize + 1) = 0 THEN 0 ELSE (k \div (LineSize + 1)) + 1]

TailInit ==
    /\ logs \in {<< >>, [d \in {1} |-> SubSeq(Stream, 1, LineSize + 1)]}
    /\ written = IF logs = << >> THEN 0 ELSE LineSize + 1
    /\ half = 0
    /\ cuts = 0
    /\ offsets = << >>
    /\ warmed = FALSE
    /\ reading = None
    /\ caughtUp = FALSE
    /\ heard = << >>
    /\ owed = {}
    /\ astray = FALSE

(***************************************************************************)
(* The game and whoever tidies its logs                                     *)
(***************************************************************************)

LinesIn(bytes) == {n \in ToSet(bytes) : n > 0}

\* What d holds, the line begun included.
Content(d) ==
    IF half # 0 /\ d = Newest
    THEN logs[d] \o SubSeq(Stream, written + 1, written + half) ELSE logs[d]

\* A file that was cut grows back to where the tailer was.
GrowsBack(d, size) ==
    d \in DOMAIN offsets /\ Len(logs[d]) < offsets[d] /\ offsets[d] <= size

\* n bytes more, whatever lines they end.  A line that ends in a file a poll has
\* met is owed.
GameWrites ==
    /\ DOMAIN logs # {}
    /\ \E n \in Writes :
        LET d == Newest
            upto == written + half + n
            ended == Max({written, upto - (upto % (LineSize + 1))})
            bytes == SubSeq(Stream, written + 1, ended)
        IN /\ upto <= Len(Stream)
           /\ logs' = [logs EXCEPT ![d] = @ \o bytes]
           /\ written' = ended
           /\ half' = upto - ended
           /\ owed' = owed \cup (IF d \in DOMAIN offsets THEN LinesIn(bytes) ELSE {})
           /\ astray' = (astray \/ GrowsBack(d, Len(logs[d]) + Len(bytes)))
    /\ caughtUp' = FALSE
    /\ UNCHANGED <<cuts, offsets, warmed, reading, heard>>

\* The line begun goes on elsewhere, if at all.
BreaksOff ==
    /\ written' = written + half
    /\ half' = 0
    /\ astray' = (astray \/ half # 0)

\* Lines a poll can no longer return.
Forgiven(d) == owed \ (LinesIn(logs[d]) \ ToSet(heard))

\* A day begins, with or without a line before the next poll: nobody looks at
\* the file of the day before again.
DayBegins ==
    /\ \E d \in Days :
        /\ \A e \in DOMAIN logs : d > e
        /\ logs' = [e \in DOMAIN logs \cup {d} |-> IF e = d THEN << >> ELSE Content(e)]
    /\ BreaksOff
    /\ owed' = IF DOMAIN logs = {} THEN owed ELSE Forgiven(Newest)
    /\ caughtUp' = FALSE
    /\ UNCHANGED <<cuts, offsets, warmed, reading, heard>>

FileIsCut(d) ==
    /\ d \in DOMAIN logs /\ cuts < MaxCuts
    /\ logs' = [logs EXCEPT ![d] = << >>]
    /\ IF d = Newest THEN BreaksOff ELSE UNCHANGED <<written, half, astray>>
    /\ cuts' = cuts + 1
    /\ owed' = Forgiven(d)
    /\ caughtUp' = FALSE
    /\ UNCHANGED <<offsets, warmed, reading, heard>>

FileGoes(d) ==
    /\ d \in DOMAIN logs /\ cuts < MaxCuts
    /\ logs' = [e \in DOMAIN logs \ {d} |-> logs[e]]
    /\ IF d = Newest THEN BreaksOff ELSE UNCHANGED <<written, half, astray>>
    /\ cuts' = cuts + 1
    /\ owed' = Forgiven(d)
    /\ caughtUp' = FALSE
    /\ UNCHANGED <<offsets, warmed, reading, heard>>

(***************************************************************************)
(* Poll                                                                     *)
(***************************************************************************)

WithOffset(d, n) == [e \in DOMAIN offsets \cup {d} |-> IF e = d THEN n ELSE offsets[e]]

\* Offsets of files that are no longer the newest go when there are too many.
Pruned(marks, newest) ==
    IF Cardinality(DOMAIN marks) <= MaxOffsets THEN marks
    ELSE [d \in DOMAIN marks \cap {newest} |-> marks[d]]

\* Mutant: a file cut short is not noticed.
StartsWhereItWas(d, size) ==
    IF ~warmed \/ d \notin DOMAIN offsets \/ size < offsets[d] THEN size ELSE offsets[d]

\* Where reading begins: at the end of a file first met, at the beginning of
\* one that has become shorter.
StartsAt(d, size) ==
    IF ~warmed \/ d \notin DOMAIN offsets THEN size
    ELSE IF size < offsets[d] THEN 0 ELSE offsets[d]

\* Poll finds the newest file and its size.
PollLooks ==
    /\ reading = None
    /\ warmed' = TRUE
    /\ astray' = (astray \/ half # 0)
    /\ IF DOMAIN logs = {} THEN UNCHANGED <<offsets, reading, caughtUp>>
       ELSE LET d == Newest
                size == Len(Content(d))
                from == StartsAt(d, size)
            IN IF from = size
               THEN /\ offsets' = Pruned(IF d \in DOMAIN offsets THEN offsets
                                         ELSE WithOffset(d, from), d)
                    /\ caughtUp' = TRUE
                    /\ UNCHANGED reading
               ELSE /\ reading' = [day |-> d, at |-> from]
                    /\ caughtUp' = FALSE
                    /\ UNCHANGED offsets
    /\ UNCHANGED <<logs, written, half, cuts, heard, owed>>

\* The one of S that has the rank n.
Nth(S, n) == CHOOSE k \in S : Cardinality({e \in S : e <= k}) = n

\* The scanner's lines: a last one needs no newline, and what was read is
\* counted as if it had one.
Scanned(bytes) ==
    LET ends == {k \in DOMAIN bytes : bytes[k] = 0 \/ k = Len(bytes)}
        Line(k) == LET from == Max({0} \cup {e \in ends : e < k}) + 1
                   IN SubSeq(bytes, from, IF bytes[k] = 0 THEN k - 1 ELSE k)
    IN [lines |-> [m \in 1..Cardinality(ends) |-> Line(Nth(ends, m))],
        read |-> Len(bytes) + (IF bytes # << >> /\ Last(bytes) # 0 THEN 1 ELSE 0)]

\* parseLogLine knows whole lines and those that lost their end.
Entries(lines) ==
    LET full == {k \in DOMAIN lines : lines[k] # << >>}
    IN [m \in 1..Cardinality(full) |-> Head(lines[Nth(full, m)])]

\* Mutant: the offset is what was read, without where reading began.
NextIsRead(from, n) == n

NextOffset(from, n) == from + n

\* readFrom: whatever the file holds by now; a file that is gone or ends
\* before the offset gives nothing.
PollReads ==
    /\ reading # None
    /\ LET d == reading.day
           bytes == IF d \in DOMAIN logs
                    THEN SubSeq(Content(d), reading.at + 1,
                                Min({Len(Content(d)), reading.at + MaxRead}))
                    ELSE << >>
           got == Scanned(bytes)
           entries == Entries(got.lines)
           kept == SubSeq(entries, Max({1, Len(entries) - MaxEntries + 1}), Len(entries))
       IN /\ offsets' = Pruned(WithOffset(d, NextOffset(reading.at, got.read)), d)
          /\ heard' = IF astray THEN heard ELSE heard \o kept
          /\ caughtUp' = (d \in DOMAIN logs /\ d = Newest
                            /\ reading.at + Len(bytes) = Len(Content(d)))
          /\ astray' = (astray \/ (bytes # << >> /\ Last(bytes) # 0))
          /\ owed' = owed \ (ToSet(entries) \ ToSet(kept))
    /\ reading' = None
    /\ UNCHANGED <<logs, written, half, cuts, warmed>>

TailNext ==
    \/ GameWrites \/ DayBegins
    \/ \E d \in Days : FileIsCut(d) \/ FileGoes(d)
    \/ PollLooks \/ PollReads

TailSpec == TailInit /\ [][TailNext]_tailVars

(***************************************************************************)
(* Properties                                                               *)
(***************************************************************************)

TailTypeOK ==
    /\ DOMAIN logs \subseteq Days /\ \A d \in DOMAIN logs : logs[d] \in Seq(0..MaxLines)
    /\ written \in Nat /\ half \in 0..LineSize /\ written + half <= Len(Stream)
    /\ cuts \in 0..MaxCuts
    /\ DOMAIN offsets \subseteq Days /\ \A d \in DOMAIN offsets : offsets[d] \in Nat
    /\ warmed \in BOOLEAN /\ caughtUp \in BOOLEAN /\ astray \in BOOLEAN
    /\ reading = None \/ reading \in [day : Days, at : Nat]
    /\ heard \in Seq(1..MaxLines) /\ owed \subseteq 1..MaxLines

\* "remembering how far it has read so repeated polls only see new lines"
\* (pz/logs.go:40): no line is returned twice, none after a later one that is
\* still in a log, across days, cut files, lines written in pieces, backlogs
\* beyond MaxRead and a read that finds more than the look did.  A file may be
\* the newest again when a newer one goes.  Once astray the code keeps no such
\* promise: half a line counts as a byte more than it has (line 168), and so
\* may be read again; a cut file that grew back is read from the old offset.
OnlyNewLines ==
    ~astray => \A k, m \in DOMAIN heard : k < m =>
        /\ heard[k] # heard[m]
        /\ heard[k] < heard[m] \/ \A d \in DOMAIN logs : heard[k] \notin LinesIn(logs[d])

\* "Poll reads everything appended since the previous call" (logs.go:66): a
\* poll at the end of the newest file has returned every line written to it
\* since a poll first met it, unless the tailer went astray.
EverythingRead ==
    ~astray /\ caughtUp => LinesIn(logs[Newest]) \cap owed \subseteq ToSet(heard)
=============================================================================
