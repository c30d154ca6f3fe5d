------------------------------- MODULE Stats -------------------------------
(***************************************************************************)
(* The parser of exec.Stats (exec/stats.go).  The probe prints up to seven *)
(* lines without labels, any of which may be missing in a sandbox that     *)
(* lacks the tool; parseStats knows them by their position.                *)
(*                                                                         *)
(* A line is [form, val]: an "int", a "float", the counters of a "cpu"     *)
(* line or the sizes of a "disk" line.  Numbers are small naturals; a      *)
(* percentage is rounded down.                                             *)
(***************************************************************************)
EXTENDS Integers, Sequences

Line(form, val) == [form |-> form, val |-> val]

\* statsScript in a sandbox s whose tools print only what s.prints holds.
Says(s, label, line) == IF label \in s.prints THEN <<line>> ELSE <<>>
Memory(s) == Says(s, "nproc", Line("int", s.nproc)) \o Says(s, "MemTotal", Line("int", s.total))
             \o Says(s, "MemAvailable", Line("int", s.avail))
Samples(s) == Says(s, "first", Line("cpu", s.first)) \o Says(s, "second", Line("cpu", s.second))
Extras(s) == Says(s, "uptime", Line("float", s.uptime)) \o Says(s, "df", Line("disk", s.df))
Script(s) == Memory(s) \o Samples(s) \o Extras(s)

At(c, i) == IF i <= Len(c) THEN c[i] ELSE 0
Total(c) == At(c, 1) + At(c, 2) + At(c, 3) + At(c, 4) + At(c, 5) + At(c, 6) + At(c, 7) + At(c, 8)
Idle(c) == At(c, 4) + At(c, 5)

\* user nice system idle [iowait irq softirq steal guest guest_nice]
CPULine(l) == l.form = "cpu" /\ Len(l.val) >= 4
parseCPULine(l) ==
    [total |-> Total(l.val), idle |-> Idle(l.val)]

Clamped(x) == IF x < 0 THEN 0 ELSE IF x > 100 THEN 100 ELSE x
CPUPercent(a, b) ==
    LET dTotal == b.total - a.total
        dIdle == b.idle - a.idle
    IN  IF dTotal > 0 THEN Clamped(((dTotal - dIdle) * 100) \div dTotal) ELSE 0

parseDiskLine(l) == IF l.form = "disk" /\ Len(l.val) > 1 THEN l.val ELSE <<0, 0>>

CoreLines(lines) ==
    /\ Len(lines) >= 5
    /\ \A i \in 1..3 : lines[i].form = "int"
    /\ CPULine(lines[4]) /\ CPULine(lines[5])

\* Applied to lines that pass CoreLines.
Usage(lines) ==
    [Cores |-> lines[1].val, MemTotalKB |-> lines[2].val, MemAvailableKB |-> lines[3].val,
     MemUsedKB |-> IF lines[2].val > lines[3].val THEN lines[2].val - lines[3].val ELSE 0,
     CPUPercent |-> CPUPercent(parseCPULine(lines[4]), parseCPULine(lines[5])),
     UptimeSeconds |-> IF Len(lines) > 5 /\ lines[6].form \in {"int", "float"}
                       THEN lines[6].val ELSE 0,
     Disk |-> IF Len(lines) > 6 THEN parseDiskLine(lines[7]) ELSE <<0, 0>>]

-----------------------------------------------------------------------------

\* The counters of a sample that are neither idle time nor counted twice.
Busy(c) == At(c, 1) + At(c, 2) + At(c, 3) + At(c, 6) + At(c, 7) + At(c, 8)

\* A usage u read in sandbox s says what s holds, whichever lines were missing:
\* each value under its own name, the best-effort ones or zero, no more memory
\* used than there is, and the busy share between two samples whose counters
\* did not go backwards.
SaysTruth(u, s) ==
    /\ u.Cores = s.nproc /\ u.MemTotalKB = s.total /\ u.MemAvailableKB = s.avail
    /\ u.MemUsedKB \in 0..s.total
    /\ u.UptimeSeconds \in {s.uptime, 0} /\ u.Disk \in {s.df, <<0, 0>>}
    /\ u.CPUPercent \in 0..100
    /\ LET busy == Busy(s.second) - Busy(s.first)
           all == Total(s.second) - Total(s.first)
       IN  busy \in 0..all /\ all > 0 =>
               100 * busy - u.CPUPercent * all \in 0..(all - 1)
=============================================================================
