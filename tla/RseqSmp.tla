------------------------------ MODULE RseqSmp ------------------------------
(***************************************************************************)
(* The number of possible CPUs of smp.c: threads read and parse the mask   *)
(* of possible CPUs, fall back to the CPU directories and sysconf(), and   *)
(* cache the result without synchronization.                               *)
(*                                                                         *)
(* Characters are numbers: the digits 0 .. 9, and the others below.        *)
(***************************************************************************)
EXTENDS Integers, SequencesExt

CONSTANTS
    Thread,
    Masks,               \* the sets of possible CPUs there may be
    RSEQ_CPUMASK_SIZE,
    IntMax,              \* INT_MAX
    Chunks,              \* the bytes a read() may return, if they are there
    Sysconf,             \* what sysconf(_SC_NPROCESSORS_CONF) may return
    Failures,            \* TRUE if open() and read() may fail
    MaxCalls             \* calls per thread, and interrupted reads (bound)

Comma == 10
Dash == 11
Newline == 12
Letter == 13
Nul == 14
Digit == 0 .. 9

SmpAssumption ==
    /\ RSEQ_CPUMASK_SIZE \in Nat \ {0} /\ IntMax \in Nat
    /\ \A S \in Masks : S # {} /\ S \subseteq 0 .. IntMax - 1
    /\ Chunks \subseteq Nat \ {0} /\ Sysconf \subseteq -1 .. IntMax
    /\ Failures \in BOOLEAN /\ MaxCalls \in Nat

-----------------------------------------------------------------------------
\* The kernel: the list format of a set of CPUs, and the directories it has of
\* them, among others.
Digits(n) == IF n < 10 THEN <<n>> ELSE <<n \div 10, n % 10>>
RangeOf(S, first) ==
    LET last == CHOOSE n \in S : first .. n \subseteq S /\ n >= first /\ n + 1 \notin S
    IN  IF last = first THEN Digits(first) ELSE Digits(first) \o <<Dash>> \o Digits(last)
ListFormat(S) ==
    LET firsts == SetToSortSeq({n \in S : n - 1 \notin S}, <)
        ranges == [k \in DOMAIN firsts |->
                      (IF k = 1 THEN << >> ELSE <<Comma>>) \o RangeOf(S, firsts[k])]
    IN  FlattenSeq(ranges) \o <<Newline>>

\* Names that start with cpu, by what follows; DT_DIR or not.
Entries(S) == {[dir |-> TRUE, suffix |-> Digits(n)] : n \in S}
              \cup {[dir |-> TRUE, suffix |-> <<Letter>>], [dir |-> TRUE, suffix |-> <<9, Letter>>],
                    [dir |-> FALSE, suffix |-> <<9, 9>>]}

-----------------------------------------------------------------------------
\* strtol() and strtoul(): the number the leading digits make and their count,
\* after white space.
LeadingDigits(s) ==
    LET blanks == CHOOSE k \in 0 .. Len(s) : /\ \A j \in 1 .. k : s[j] = Newline
                                             /\ k < Len(s) => s[k + 1] # Newline
        n == CHOOSE k \in 0 .. Len(s) - blanks :
                 /\ \A j \in 1 .. k : s[blanks + j] \in Digit
                 /\ k < Len(s) - blanks => s[blanks + k + 1] \notin Digit
    IN  SubSeq(s, blanks + 1, blanks + n)
Number(ds) == FoldLeft(LAMBDA v, d : 10 * v + d, 0, ds)

IsCpu(entry) == /\ entry.dir /\ LeadingDigits(entry.suffix) # << >>
                /\ LeadingDigits(entry.suffix) = entry.suffix

\* -1 is kept if there is none or the largest does not fit an int.
_get_max_cpuid_from_sysfs(dir) ==
    LET ids == {Number(LeadingDigits(e.suffix)) : e \in {e \in dir : IsCpu(e)}}
        max == CHOOSE m \in ids \cup {-1} : \A n \in ids : n <= m
    IN  IF max > IntMax THEN -1 ELSE max

\* An int, with the usual wrap-around.
AsInt(n) == ((n + IntMax + 1) % (2 * (IntMax + 1))) - (IntMax + 1)

get_num_possible_cpus_fallback(conf, dir) ==
    LET len == AsInt(_get_max_cpuid_from_sysfs(dir) + 1)
    IN  IF conf > len THEN conf ELSE len


\* Where the last number of the mask starts: after the last separator, which is
\* not looked for in the first character.
LastNumber(pmask) ==
    LET seps == {i \in 2 .. Len(pmask) : pmask[i] \in {Comma, Dash}}
    IN  IF seps = {} THEN 1 ELSE 1 + CHOOSE i \in seps : \A j \in seps : j <= i

get_max_cpuid_from_mask(pmask) ==
    IF pmask = << >> THEN -1
    ELSE LET ds == LeadingDigits(SubSeq(pmask, LastNumber(pmask), Len(pmask)))
         IN  IF ds # << >> /\ Number(ds) < IntMax THEN Number(ds) ELSE -1

\* The string get_cpu_mask_from_sysfs() leaves in the buffer, of which it
\* returns the length.
Buffer(file, total) ==
    IF total < RSEQ_CPUMASK_SIZE THEN SubSeq(file, 1, total)
    ELSE SubSeq(file, 1, total - 1) \o <<Nul>>

-----------------------------------------------------------------------------
VARIABLES
    possible,                         \* the possible CPUs,
    file,                             \* and the file that lists them
    possible_cpus_array_len_cache,
    pc,
    total_bytes_read,                 \* of each thread
    ret,                              \* of each thread: the length, or what it returned
    calls

vars == <<possible, file, possible_cpus_array_len_cache, pc, total_bytes_read, ret, calls>>

Init ==
    /\ possible \in Masks /\ file = ListFormat(possible)
    /\ possible_cpus_array_len_cache = 0
    /\ pc = [t \in Thread |-> "idle"]
    /\ total_bytes_read = [t \in Thread |-> 0]
    /\ ret = [t \in Thread |-> 0]
    /\ calls = [t \in Thread |-> 0]

At(t, l) == pc[t] = l
Goto(t, l) == pc' = [pc EXCEPT ![t] = l]
Set(t, v) == ret' = [ret EXCEPT ![t] = v]

get_possible_cpus_array_len(t) ==
    /\ At(t, "idle") /\ calls[t] < MaxCalls
    /\ calls' = [calls EXCEPT ![t] = @ + 1]
    /\ Goto(t, IF possible_cpus_array_len_cache = 0 THEN "open" ELSE "return")
    /\ UNCHANGED <<possible, file, possible_cpus_array_len_cache, total_bytes_read, ret>>

Open(t) ==
    /\ At(t, "open")
    /\ \/ Goto(t, "read")
       \/ Failures /\ Goto(t, "fallback")
    /\ total_bytes_read' = [total_bytes_read EXCEPT ![t] = 0]
    /\ UNCHANGED <<possible, file, possible_cpus_array_len_cache, ret, calls>>

\* read() returns some of the bytes that are left and have room, and nothing at
\* the end of the file.
Read(t) ==
    LET left == Len(file) - total_bytes_read[t]
        room == RSEQ_CPUMASK_SIZE - total_bytes_read[t]
        most == IF left < room THEN left ELSE room
    IN  /\ At(t, "read")
        /\ \E n \in {most} \cup {c \in Chunks : c < most} :
              /\ total_bytes_read' = [total_bytes_read EXCEPT ![t] = @ + n]
              /\ IF n # 0 /\ room > n THEN UNCHANGED pc ELSE Goto(t, "parse")
        /\ UNCHANGED <<possible, file, possible_cpus_array_len_cache, ret, calls>>

\* EINTR: the read is done again.
Interrupted(t) ==
    /\ At(t, "read") /\ Failures
    /\ UNCHANGED vars

ReadFails(t) ==
    /\ At(t, "read") /\ Failures
    /\ Goto(t, "fallback")
    /\ UNCHANGED <<possible, file, possible_cpus_array_len_cache, total_bytes_read, ret, calls>>

Parse(t) ==
    LET id == get_max_cpuid_from_mask(Buffer(file, total_bytes_read[t]))
    IN  /\ At(t, "parse")
        /\ IF total_bytes_read[t] = 0 \/ id < 0
             THEN Goto(t, "fallback") /\ UNCHANGED ret
             ELSE Goto(t, "store") /\ Set(t, id + 1)
        /\ UNCHANGED <<possible, file, possible_cpus_array_len_cache, total_bytes_read, calls>>

\* The directories can be read, or neither they nor the mask can.
Fallback(t) ==
    /\ At(t, "fallback")
    /\ \E conf \in Sysconf : Set(t, get_num_possible_cpus_fallback(conf, Entries(possible)))
    /\ Goto(t, "store")
    /\ UNCHANGED <<possible, file, possible_cpus_array_len_cache, total_bytes_read, calls>>

FallbackNoDir(t) ==
    /\ At(t, "fallback") /\ -1 \in Sysconf
    /\ Set(t, get_num_possible_cpus_fallback(-1, {}))
    /\ Goto(t, "store")
    /\ UNCHANGED <<possible, file, possible_cpus_array_len_cache, total_bytes_read, calls>>

Store(t) ==
    /\ At(t, "store")
    /\ possible_cpus_array_len_cache' =
          IF ret[t] < 1 THEN possible_cpus_array_len_cache ELSE ret[t]
    /\ Goto(t, "return")
    /\ UNCHANGED <<possible, file, total_bytes_read, ret, calls>>

\* The cache is read again; ret is then what the caller has.
Return(t) ==
    /\ At(t, "return")
    /\ Set(t, possible_cpus_array_len_cache)
    /\ Goto(t, "idle")
    /\ total_bytes_read' = [total_bytes_read EXCEPT ![t] = 0]
    /\ UNCHANGED <<possible, file, possible_cpus_array_len_cache, calls>>

Next == \E t \in Thread :
    \/ get_possible_cpus_array_len(t)
    \/ Open(t) \/ Read(t) \/ Interrupted(t) \/ ReadFails(t) \/ Parse(t)
    \/ Fallback(t) \/ FallbackNoDir(t) \/ Store(t) \/ Return(t)

Spec == Init /\ [][Next]_vars

-----------------------------------------------------------------------------
Returned(t) == At(t, "idle") /\ calls[t] > 0
MaskFits == Len(file) < RSEQ_CPUMASK_SIZE

\* The mask of possible CPUs, read in whatever pieces, is parsed to one more
\* than the largest of them, the length of an array indexed by CPU.
MaskParsed ==
    \A t \in Thread : At(t, "parse") /\ MaskFits =>
        1 + get_max_cpuid_from_mask(Buffer(file, total_bytes_read[t]))
            = CHOOSE len \in {n + 1 : n \in possible} : \A n \in possible : n < len

\* An array of the length that is returned has an element for every possible
\* CPU, whichever of the sources it came from; zero says that none is known.
LenSuffices ==
    MaskFits => \A t \in Thread : Returned(t) => ret[t] = 0 \/ \A n \in possible : n < ret[t]

\* A length that is known is not taken back by another thread's failure.
KeptKnown == [][possible_cpus_array_len_cache # 0 => possible_cpus_array_len_cache' # 0]_vars

=============================================================================
