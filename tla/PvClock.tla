------------------------------ MODULE PvClock ------------------------------
(***************************************************************************)
(* The paravirtual clock of the Assignment 3 kernel: the monotonic and the *)
(* wall clock are records of the shared-info page that the hypervisor      *)
(* rewrites while the guest reads them.  A record's version is odd during  *)
(* an update.                                                              *)
(*                                                                         *)
(* A step is one access to a shared field.  The fields are volatile, so    *)
(* each access of the source is one of the program.  Time is the value of  *)
(* Clock, which the hypervisor keeps running on across its updates.        *)
(***************************************************************************)
EXTENDS Integers

CONSTANTS
    Rates,        \* the (shift, multiplier) pairs the hypervisor may set
    WallClocks,   \* wall-clock values, as [sec, nsec]
    MaxTsc,       \* bound: the time-stamp counter
    EarlyTsc,     \* bound: the counter before wait has its start
    MaxUpdates,   \* bound: updates of ti, and of wc
    Versions,     \* 2^32, the versions a record can have
    Secs,         \* argument of wait
    NsecPerSec,   \* NSEC_PER_SEC
    Unit,         \* 2^32, the unit of a multiplier
    Word          \* 2^64

ASSUME RatesAssumption ==
    /\ Rates # {} /\ WallClocks # {}
    /\ \A r \in Rates : r.shift \in Int /\ r.mul \in Nat \ {0}
    /\ MaxUpdates \in [ti : Nat, wc : Nat] /\ EarlyTsc \in 0..MaxTsc
    /\ Unit \in Nat \ {0} /\ NsecPerSec \in Nat \ {0} /\ Word \in Nat \ {0}
    /\ MaxTsc \in Nat /\ Secs \in Nat

\* No version comes back: a read does not last for 2^31 updates.
ASSUME VersionAssumption ==
    /\ Versions \in Nat
    /\ 2 * MaxUpdates.ti < Versions /\ 2 * MaxUpdates.wc < Versions

\* sec and nsec of the shared page are 32-bit words: in nanoseconds they fit
\* 64 bits.
ASSUME WallAssumption ==
    \A w \in WallClocks :
        w.sec \in Nat /\ w.nsec \in Nat /\ w.sec * NsecPerSec + w.nsec < Word

VARIABLES
    tsc,              \* the time-stamp counter
    ti, ticking,      \* pvclock_ti, and the values it is being brought to
    wc, setting,      \* pvclock_wc, and the values it is being brought to
    left,             \* updates left, of each record
    host, whost,      \* the hypervisor inside an update of each
    job, pc, loc,     \* the guest: the call it is in, and its locals
    time,             \* the local of wait
    since,            \* history: Clock when the call, and when wait, began
    seen              \* history: wall clocks in force during pvclock_wc_read

hostVars == <<ti, ticking, wc, setting, left, host, whost>>
guestVars == <<job, pc, loc, time, since>>
vars == <<tsc, hostVars, guestVars, seen>>

Shift(delta, by) == IF by < 0 THEN delta \div 2^(-by) ELSE (delta * 2^by) % Word
Mul64_32(a, b) == ((a * b) \div Unit) % Word

\* The counter does not run so far that the clock wraps: a difference that
\* is shifted up keeps its bits, and there is a rate that every pair keeps
\* to and at which the clock stays below 2^64 nanoseconds.
ASSUME WideAssumption ==
    /\ MaxTsc < Word
    /\ \A r \in Rates : r.shift >= 0 => MaxTsc * 2^r.shift < Word
    /\ \E s \in 0..Word :
          /\ s * MaxTsc < Word
          /\ \A r \in Rates, d \in 0..MaxTsc :
                (Shift(d, r.shift) * r.mul) \div Unit <= s * d

\* Arithmetic, for proofs about Shift: a power of two is positive.
ASSUME PowerAssumption ==
    \A r \in Rates :
        2^(IF r.shift < 0 THEN -r.shift ELSE r.shift) \in Nat \ {0}

\* The time a record stands for at counter value c.
Value(r, c) == Mul64_32(Shift(c - r.tsc_timestamp, r.shift), r.mul)
               + r.system_time
Clock == Value(ticking, tsc)

Nsecs(w) == w.sec * NsecPerSec + w.nsec

----------------------------------------------------------------------------
(* The hypervisor.                                                         *)

Tick ==
    /\ tsc < IF job \in {"waiting", "last"} THEN MaxTsc ELSE EarlyTsc
    /\ tsc' = tsc + 1
    /\ UNCHANGED <<hostVars, guestVars, seen>>

\* The new record starts where the clock stands.
TimeBegin ==
    /\ host = "idle" /\ left.ti > 0
    /\ \E r \in Rates :
          ticking' = [tsc_timestamp |-> tsc, system_time |-> Clock,
                      mul |-> r.mul, shift |-> r.shift]
    /\ ti' = [ti EXCEPT !.version = @ + 1]
    /\ left' = [left EXCEPT !.ti = @ - 1]
    /\ host' = "tsc_timestamp"
    /\ UNCHANGED <<tsc, wc, setting, whost, guestVars, seen>>

TimeStore(field, next) ==
    /\ host = field /\ host' = next
    /\ ti' = [ti EXCEPT ![field] = ticking[field]]
    /\ UNCHANGED <<tsc, ticking, wc, setting, left, whost, guestVars, seen>>

TimeEnd ==
    /\ host = "end" /\ host' = "idle"
    /\ ti' = [ti EXCEPT !.version = @ + 1]
    /\ UNCHANGED <<tsc, ticking, wc, setting, left, whost, guestVars, seen>>

TimeUpdate ==
    \/ TimeBegin \/ TimeEnd
    \/ TimeStore("tsc_timestamp", "system_time")
    \/ TimeStore("system_time", "mul")
    \/ TimeStore("mul", "shift")
    \/ TimeStore("shift", "end")

\* Bound: an update that is over before pvclock_wc_read, or begins after it,
\* is another initial value or none.
WallMatters == \/ job = "wall" /\ pc # "wc_return"
               \/ job = "first" /\ pc = "return"

WallBegin ==
    /\ whost = "idle" /\ left.wc > 0 /\ WallMatters
    /\ setting' \in WallClocks
    /\ seen' = seen \cup {Nsecs(setting')}
    /\ wc' = [wc EXCEPT !.version = @ + 1]
    /\ left' = [left EXCEPT !.wc = @ - 1]
    /\ whost' = "sec"
    /\ UNCHANGED <<tsc, ti, ticking, host, guestVars>>

WallStore(field, next) ==
    /\ whost = field /\ whost' = next
    /\ wc' = [wc EXCEPT ![field] = setting[field]]
    /\ UNCHANGED <<tsc, ti, ticking, setting, left, host, guestVars, seen>>

WallEnd ==
    /\ whost = "end" /\ whost' = "idle"
    /\ wc' = [wc EXCEPT !.version = @ + 1]
    /\ UNCHANGED <<tsc, ti, ticking, setting, left, host, guestVars, seen>>

WallUpdate == \/ WallBegin \/ WallEnd
              \/ WallStore("sec", "nsec") \/ WallStore("nsec", "end")

----------------------------------------------------------------------------
(* pvclock_monotonic_read.                                                 *)

guestRest == <<tsc, hostVars, job, time, since, seen>>

ReadVersion ==
    /\ pc = "version" /\ pc' = "delta"
    /\ loc' = [loc EXCEPT !.version = ti.version]
    /\ UNCHANGED guestRest

\* rdtsc() - tsc_timestamp: the compiler chooses which comes first.
ReadTsc ==
    /\ pc \in {"delta", "tsc"}
    /\ pc' = IF pc = "delta" THEN "timestamp" ELSE "sign"
    /\ loc' = [loc EXCEPT !.value = (@ + tsc) % Word]
    /\ UNCHANGED guestRest

\* Mutant: the difference is a signed one.
ReadTimestamp_Signed ==
    /\ pc \in {"delta", "timestamp"}
    /\ pc' = IF pc = "delta" THEN "tsc" ELSE "sign"
    /\ loc' = [loc EXCEPT !.value = @ - ti.tsc_timestamp]
    /\ UNCHANGED guestRest

ReadTimestamp ==
    /\ pc \in {"delta", "timestamp"}
    /\ pc' = IF pc = "delta" THEN "tsc" ELSE "sign"
    /\ loc' = [loc EXCEPT !.value = (@ - ti.tsc_timestamp) % Word]
    /\ UNCHANGED guestRest

ReadSign ==
    /\ pc = "sign" /\ pc' = "shift"
    /\ loc' = [loc EXCEPT !.negative = ti.shift < 0]
    /\ UNCHANGED guestRest

\* tsc_shift is read again for the shift itself.  If its sign has changed
\* the shift is undefined, and its result anything.
ReadShift ==
    /\ pc = "shift" /\ pc' = "mul"
    /\ \/ /\ loc.negative = (ti.shift < 0)
          /\ loc' = [loc EXCEPT !.value = Shift(@, ti.shift),
                                 !.negative = FALSE]
       \/ /\ loc.negative # (ti.shift < 0)
          /\ \E d \in {0, Word - 1} :
                loc' = [loc EXCEPT !.value = d, !.negative = FALSE]
    /\ UNCHANGED guestRest

ReadMul ==
    /\ pc = "mul" /\ pc' = "system_time"
    /\ loc' = [loc EXCEPT !.value = Mul64_32(@, ti.mul)]
    /\ UNCHANGED guestRest

ReadSystemTime ==
    /\ pc = "system_time" /\ pc' = "even"
    /\ loc' = [loc EXCEPT !.value = (@ + ti.system_time) % Word]
    /\ UNCHANGED guestRest

\* The locals, delta and time_now in one; the value at a return.
NoLocals == [version |-> 0, value |-> 0, negative |-> FALSE]
Result == loc.value

\* Mutant: the parity test is the wrong way round.
CheckEven_Odd ==
    /\ pc = "even"
    /\ \/ ti.version % 2 = 1 /\ pc' = "same" /\ UNCHANGED loc
       \/ ti.version % 2 = 0 /\ pc' = "version" /\ loc' = NoLocals
    /\ UNCHANGED guestRest

\* The loop's condition reads the version twice.
CheckEven ==
    /\ pc = "even"
    /\ \/ ti.version % 2 = 0 /\ pc' = "same" /\ UNCHANGED loc
       \/ ti.version % 2 = 1 /\ pc' = "version" /\ loc' = NoLocals
    /\ UNCHANGED guestRest

\* Mutant: the version is not compared with the first one.
CheckSame_Not == pc = "same" /\ pc' = "return" /\ UNCHANGED <<loc, guestRest>>

CheckSame ==
    /\ pc = "same"
    /\ \/ ti.version = loc.version /\ pc' = "return" /\ UNCHANGED loc
       \/ ti.version # loc.version /\ pc' = "version" /\ loc' = NoLocals
    /\ UNCHANGED guestRest

MonotonicRead == ReadVersion \/ ReadTsc \/ ReadTimestamp \/ ReadSign
                 \/ ReadShift \/ ReadMul \/ ReadSystemTime
                 \/ CheckEven \/ CheckSame

----------------------------------------------------------------------------
(* pvclock_wc_read.                                                        *)

WallVersion ==
    /\ pc = "wc_version" /\ pc' = "wc_sec"
    /\ loc' = [loc EXCEPT !.version = wc.version]
    /\ UNCHANGED guestRest

WallSec ==
    /\ pc = "wc_sec" /\ pc' = "wc_nsec"
    /\ loc' = [loc EXCEPT !.value = (wc.sec * NsecPerSec) % Word]
    /\ UNCHANGED guestRest

WallNsec ==
    /\ pc = "wc_nsec" /\ pc' = "wc_even"
    /\ loc' = [loc EXCEPT !.value = (@ + wc.nsec) % Word]
    /\ UNCHANGED guestRest

\* Mutant: an update under way is not noticed.
WallEven_Not == pc = "wc_even" /\ pc' = "wc_same" /\ UNCHANGED <<loc, guestRest>>

WallEven ==
    /\ pc = "wc_even"
    /\ \/ wc.version % 2 = 0 /\ pc' = "wc_same" /\ UNCHANGED loc
       \/ wc.version % 2 = 1 /\ pc' = "wc_version" /\ loc' = NoLocals
    /\ UNCHANGED guestRest

WallSame ==
    /\ pc = "wc_same"
    /\ \/ wc.version = loc.version /\ pc' = "wc_return" /\ UNCHANGED loc
       \/ wc.version # loc.version /\ pc' = "wc_version" /\ loc' = NoLocals
    /\ UNCHANGED guestRest

WallRead == WallVersion \/ WallSec \/ WallNsec \/ WallEven \/ WallSame

----------------------------------------------------------------------------
(* kernel_start: a read of each clock, wait(Secs), and a read.             *)

Call(next) ==
    /\ job' = next /\ pc' = "version" /\ loc' = NoLocals
    /\ since' = [since EXCEPT !.call = Clock]

CallWall ==
    /\ job = "first" /\ pc = "return"
    /\ job' = "wall" /\ pc' = "wc_version" /\ loc' = NoLocals
    /\ seen' = {Nsecs(setting)}
    /\ UNCHANGED <<tsc, hostVars, time, since>>

CallWait ==
    /\ job = "wall" /\ pc = "wc_return"
    /\ job' = "wait" /\ pc' = "version" /\ loc' = NoLocals
    /\ since' = [call |-> Clock, wait |-> Clock] /\ seen' = {}
    /\ UNCHANGED <<tsc, hostVars, time>>

WaitStart ==
    /\ job = "wait" /\ pc = "return"
    /\ time' = Result
    /\ Call("waiting")
    /\ UNCHANGED <<tsc, hostVars, seen>>

Elapsed == ((Result - time) % Word) \div NsecPerSec

WaitAgain ==
    /\ job = "waiting" /\ pc = "return" /\ Elapsed < Secs
    /\ Call("waiting")
    /\ UNCHANGED <<tsc, hostVars, time, seen>>

\* Mutant: wait ends a second early.
WaitEnd_Early ==
    /\ job = "waiting" /\ pc = "return" /\ Elapsed + 1 >= Secs
    /\ Call("last")
    /\ UNCHANGED <<tsc, hostVars, time, seen>>

WaitEnd ==
    /\ job = "waiting" /\ pc = "return" /\ Elapsed >= Secs
    /\ Call("last")
    /\ UNCHANGED <<tsc, hostVars, time, seen>>

\* The guest goes on to what does not read the clocks.
Done == job = "last" /\ pc = "return" /\ UNCHANGED vars

KernelStart == CallWall \/ CallWait \/ WaitStart \/ WaitAgain \/ WaitEnd \/ Done

----------------------------------------------------------------------------
Init ==
    /\ tsc = 0
    /\ \E r \in Rates :
          ticking = [tsc_timestamp |-> 0, system_time |-> 0,
                     mul |-> r.mul, shift |-> r.shift]
    /\ ti = [version |-> 0, tsc_timestamp |-> 0, system_time |-> 0,
             mul |-> ticking.mul, shift |-> ticking.shift]
    /\ setting \in WallClocks
    /\ wc = [version |-> 0, sec |-> setting.sec, nsec |-> setting.nsec]
    /\ left = MaxUpdates
    /\ host = "idle" /\ whost = "idle"
    /\ job = "first" /\ pc = "version" /\ loc = NoLocals
    /\ time = 0
    /\ since = [call |-> 0, wait |-> 0] /\ seen = {}

Guest == MonotonicRead \/ WallRead \/ KernelStart

Next == Tick \/ TimeUpdate \/ WallUpdate \/ Guest

Spec == Init /\ [][Next]_vars

\* Time passes, the guest keeps executing, and the hypervisor finishes an
\* update it has begun.
FairSpec == /\ Spec /\ WF_vars(Tick) /\ WF_vars(Guest)
            /\ WF_vars(TimeUpdate /\ host # "idle")
            /\ WF_vars(WallUpdate /\ whost # "idle")

----------------------------------------------------------------------------
(* Properties.                                                             *)

Instants == 0..MaxTsc
Times == 0..(Word - 1)
Shifts == {r.shift : r \in Rates}
Muls   == {r.mul : r \in Rates}
TimeRecord == [tsc_timestamp : Instants, system_time : Times,
               mul : Muls, shift : Shifts]

\* The type invariant.
TypeOK ==
    /\ tsc \in Instants
    /\ ticking \in TimeRecord
    /\ [f \in DOMAIN ticking |-> ti[f]] \in TimeRecord
    /\ ti.version \in 0..(2 * MaxUpdates.ti)
    /\ setting \in WallClocks /\ wc.version \in 0..(2 * MaxUpdates.wc)
    /\ left.ti \in 0..MaxUpdates.ti /\ left.wc \in 0..MaxUpdates.wc
    /\ host \in {"idle", "tsc_timestamp", "system_time", "mul", "shift", "end"}
    /\ whost \in {"idle", "sec", "nsec", "end"}
    /\ job \in {"first", "wall", "wait", "waiting", "last"}
    /\ loc.value \in Times /\ time \in Times

\* A monotonic read returns what the clock showed at some moment of the
\* call, whatever update it overlaps: never a mixture of two records, and
\* so never a time before an earlier call's.
ReadIsCurrent ==
    pc = "return" => since.call <= Result /\ Result <= Clock

\* A wall-clock read returns a value that was in force during the call, not
\* the seconds of one and the nanoseconds of another.
WallClockWhole == pc = "wc_return" => Result \in seen

\* wait(secs) returns no earlier than secs seconds after its call, although
\* its difference is unsigned and would wrap if the clock stepped back.
WaitIsLongEnough ==
    job = "last" => Clock - since.wait >= Secs * NsecPerSec

\* Every loop of the clock code ends: the reads', when the record is no
\* longer being updated, and that of wait, when the time is over.
WaitReturns == <>(job = "last" /\ pc = "return")
=============================================================================
