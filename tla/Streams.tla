------------------------------- MODULE Streams -------------------------------
(***************************************************************************)
(* The stdio streams of the C library (src/gigatron/libc: _iob.c, fopen.c, *)
(* fclose.c, fgetc.c, fread.c, ungetc.c, ...) over the files of the host,  *)
(* as the simulator serves them (src/gigatron/mapsim/gtsim.c: sys_io_...). *)
(* A stream is a flag byte, here the set of its bits, a character pushed   *)
(* back, and the descriptor the host gave.  A stream without a bit is      *)
(* closed.  A host read may give less than it was asked for, or fail; an   *)
(* open may fail; a host write is complete.                                *)
(* The operators named Bad... are mistakes one could make in the one that  *)
(* follows: the checks must tell them apart.                               *)
(***************************************************************************)
EXTENDS Integers, Sequences, FiniteSets, SequencesExt, FiniteSetsExt

CONSTANTS Slots,      \* the streams of _iob[IOBSIZE], numbers from 3 on
          Names,      \* the names a program opens
          Content,    \* the bytes of the files that exist at first, terminal included
          Bytes,      \* the characters of the files
          Typed,      \* the ones the program writes or pushes back
          Modes,      \* the bufferings it asks for
          MaxLength,  \* bound: the length of a file
          MaxWant     \* bound: the bytes one fread asks for
ASSUME StreamsAssumption ==
    /\ IsFiniteSet(Slots) /\ Slots \subseteq Nat /\ \A s \in Slots : s > 2
    /\ "tty" \in DOMAIN Content /\ "tty" \notin Names
    /\ \A f \in DOMAIN Content : Content[f] \in Seq(Bytes) /\ Len(Content[f]) <= MaxLength
    /\ 0 \in Bytes /\ Typed \subseteq Bytes
    /\ MaxLength \in Nat /\ MaxWant \in Nat

stdin == 0
Streams == {stdin} \cup Slots
Buffering == {"FBF", "NBF"}                      \* _IOLBF is both bits
ASSUME ModesAssumption == Modes \subseteq {{"FBF"}, {"NBF"}, Buffering}
Flags == {"READ", "WRIT", "ERR", "EOF", "UNGET"} \cup Buffering

VARIABLES flag,     \* _flag of each stream
          unget,    \* _unget
          fd,       \* _x, the descriptor; -1 after an open that failed
          host,     \* the descriptors open on the host
          data,     \* the files of the host
          running,  \* FALSE once exit() has closed everything
          op        \* what the last call read: the stream, what it got, less than it wanted?
vars == <<flag, unget, fd, host, data, running, op>>

Quiet == [fp |-> stdin, got |-> <<>>, short |-> FALSE]
Open(fp) == flag[fp] # {}

-----------------------------------------------------------------------------
(* The host.  The terminal is descriptor 0, and is never closed. *)
File(fp) == data[host[fd[fp]].file]
Position(fp) == host[fd[fp]].pos
Lowest(open) == Min(3..(3 + Cardinality(open)) \ open)

(* sys_io_read, pos bytes into the file: how many bytes come, -1 an error. *)
sys_io_read(fp, pos, cnt) ==
    LET left == Len(File(fp)) - pos
    IN  {-1} \cup (IF left <= 0 THEN {0} ELSE 1..Min({left, cnt}))

(* sys_io_openf: a stream that is only written makes the file, or empties it. *)
sys_io_openf(name, bits) ==
    IF "READ" \in bits THEN data
    ELSE [f \in DOMAIN data \cup {name} |-> IF f = name THEN <<>> ELSE data[f]]

(* _sclose, down to sys_io_flush: the descriptors of the open ones are closed. *)
Bad_sclose(fps) == host
_sclose(fps) ==
    [d \in DOMAIN host \ {fd[fp] : fp \in {s \in fps : Open(s) /\ fd[s] > 2}} |-> host[d]]

-----------------------------------------------------------------------------
_schkread(fp) == "READ" \in flag[fp] /\ flag[fp] \cap {"ERR", "EOF"} = {}
_schkwrite(fp) == "WRIT" \in flag[fp] /\ flag[fp] \cap {"ERR", "EOF"} = {}

Pushed(fp) == IF "UNGET" \in flag[fp] THEN <<unget[fp]>> ELSE <<>>
Next_n(fp, n) == SubSeq(File(fp), Position(fp) + 1, Position(fp) + n)

(* The flags once the character pushed back is taken. *)
BadTaken(fp) == flag[fp]
Taken(fp) == flag[fp] \ {"UNGET"}

(* The ways the reads of _fread can end: the bytes in all, and the bit they set. *)
reads(fp, cnt) ==
    LET from[n \in 0..cnt] ==
          IF n = cnt THEN {[n |-> n, bit |-> {}]}
          ELSE UNION {IF r > 0 THEN from[n + r]
                      ELSE {[n |-> n, bit |-> IF r = 0 THEN {"EOF"} ELSE {"ERR"}]} :
                        r \in sys_io_read(fp, Position(fp) + n, cnt - n)}
    IN  from[0]

-----------------------------------------------------------------------------
Init ==
    /\ flag = [s \in Streams |-> IF s = stdin THEN {"READ"} \cup Buffering ELSE {}]
    /\ unget = [s \in Streams |-> 0]
    /\ fd = [s \in Streams |-> 0]
    /\ host = [d \in {0} |-> [file |-> "tty", pos |-> 0, append |-> FALSE]]
    /\ data = Content
    /\ running = TRUE
    /\ op = Quiet

(* fgetc (a read of one byte) and fread: the character pushed back comes first. *)
fread(fp, sz) ==
    /\ running /\ _schkread(fp)
    /\ \E r \in reads(fp, sz - Len(Pushed(fp))) :
         /\ flag' = [flag EXCEPT ![fp] = Taken(fp) \cup r.bit]
         /\ host' = [host EXCEPT ![fd[fp]].pos = @ + r.n]
         /\ op' = [fp |-> fp, got |-> Pushed(fp) \o Next_n(fp, r.n),
                   short |-> Len(Pushed(fp)) + r.n < sz]
    /\ UNCHANGED <<unget, fd, data, running>>

ungetc(c, fp) ==
    /\ running /\ _schkread(fp) /\ "UNGET" \notin flag[fp]
    /\ flag' = [flag EXCEPT ![fp] = @ \cup {"UNGET"}]
    /\ unget' = [unget EXCEPT ![fp] = c]
    /\ op' = Quiet /\ UNCHANGED <<fd, host, data, running>>

(* fputc; fputs and fwrite write several bytes so. *)
fputc(c, fp) ==
    LET d == host[fd[fp]]
        old == File(fp)
        pos == IF d.append THEN Len(old) ELSE d.pos
    IN  /\ running /\ _schkwrite(fp) /\ pos < MaxLength
        /\ data' = [data EXCEPT ![d.file] =
                      [i \in 1..Max({Len(old), pos + 1}) |->
                         IF i = pos + 1 THEN c ELSE IF i <= Len(old) THEN old[i] ELSE 0]]
        /\ host' = [host EXCEPT ![fd[fp]].pos = pos + 1]
        /\ op' = Quiet /\ UNCHANGED <<flag, unget, fd, running>>

(* The calls that change the flags only. *)
Reflag(fps, NewFlags(_)) ==
    /\ running
    /\ flag' = [s \in Streams |-> IF s \in fps THEN NewFlags(flag[s]) ELSE flag[s]]
    /\ op' = Quiet /\ UNCHANGED <<unget, fd, host, data, running>>

(* setvbuf refuses a stream that is closed. *)
Badsetvbuf(fp, mode) ==
    /\ Reflag({fp}, LAMBDA f : (f \ (Buffering \cup {"UNGET"})) \cup mode)
setvbuf(fp, mode) ==
    /\ flag[fp] \ (Buffering \cup {"UNGET"}) # {}
    /\ Reflag({fp}, LAMBDA f : (f \ (Buffering \cup {"UNGET"})) \cup mode)

(* fflush of one stream, or of all with _swalk. *)
fflush(fps) ==
    /\ fps \in {{fp} : fp \in Streams} \cup {Streams}
    /\ Reflag(fps, LAMBDA f : f \ {"UNGET"})

clearerr(fp) ==
    /\ Open(fp)
    /\ Reflag({fp}, LAMBDA f : f \ {"EOF", "ERR"})

fseek(fp, off) ==
    /\ running /\ Open(fp) /\ fd[fp] > 2 /\ off \in 0..Len(File(fp))
    /\ host' = [host EXCEPT ![fd[fp]].pos = off]
    /\ flag' = [flag EXCEPT ![fp] = @ \ {"EOF", "UNGET"}]
    /\ op' = Quiet /\ UNCHANGED <<unget, fd, data, running>>

-----------------------------------------------------------------------------
fclose(fp) ==
    /\ running /\ Open(fp)
    /\ host' = _sclose({fp})
    /\ flag' = [flag EXCEPT ![fp] = {}]
    /\ op' = Quiet /\ UNCHANGED <<unget, fd, data, running>>

_sflags == [r |-> {"READ"}, w |-> {"WRIT"}, a |-> {"WRIT", "EOF"}, plus |-> {"READ", "WRIT"}]

(* freopen closes what the stream had, then opens; the host may refuse.  The  *)
(* bit that asks for appending is EOF, and is cleared after the open.        *)
freopen(name, mode, fp) ==
    LET bits == _sflags[mode]
        closed == _sclose({fp})
        d == Lowest(DOMAIN closed)
        succeeds ==
          /\ name \in DOMAIN data \/ "READ" \notin bits
          /\ data' = sys_io_openf(name, bits)
          /\ host' = [e \in DOMAIN closed \cup {d} |->
                        IF e = d THEN [file |-> name, pos |-> 0, append |-> "EOF" \in bits]
                        ELSE closed[e]]
          /\ fd' = [fd EXCEPT ![fp] = d]
          /\ flag' = [flag EXCEPT ![fp] = bits \ {"EOF"}]
        fails ==
          /\ host' = closed
          /\ fd' = [fd EXCEPT ![fp] = -1]
          /\ flag' = [flag EXCEPT ![fp] = {}]
          /\ UNCHANGED data
    IN  /\ running
        /\ succeeds \/ fails
        /\ op' = Quiet /\ UNCHANGED <<unget, running>>

(* fopen takes the first slot that is closed: _sfindiob. *)
fopen(name, mode) ==
    /\ \E s \in Slots : ~Open(s)
    /\ freopen(name, mode, Min({s \in Slots : ~Open(s)}))

(* exit() runs _fcloseall: the descriptors go, the flags stay. *)
exit ==
    /\ running /\ running' = FALSE
    /\ host' = _sclose(Streams)
    /\ op' = Quiet /\ UNCHANGED <<flag, unget, fd, data>>

Next ==
    \/ \E name \in Names, mode \in DOMAIN _sflags : fopen(name, mode)
    \/ \E fp \in Streams, sz \in 1..MaxWant : fread(fp, sz)
    \/ \E fp \in Streams, c \in Typed : ungetc(c, fp)
    \/ \E fp \in Streams, c \in Typed : fputc(c, fp)
    \/ \E fp \in Streams, mode \in Modes : setvbuf(fp, mode)
    \/ \E fps \in SUBSET Streams : fflush(fps)
    \/ \E fp \in Streams : clearerr(fp)
    \/ \E fp \in Streams, off \in 0..MaxLength : fseek(fp, off)
    \/ \E fp \in Streams : fclose(fp)
    \/ \E fp \in Streams, name \in Names, mode \in DOMAIN _sflags : freopen(name, mode, fp)
    \/ exit

Spec == Init /\ [][Next]_vars

-----------------------------------------------------------------------------
(* The streams keep their types; a stream is open exactly when it can be read *)
(* or written, and one that is open has a descriptor (setbuf.c:16 refuses to  *)
(* put a bit in the flag byte of a closed stream, which would open it); a     *)
(* character pushed back is never hidden by an end of file.                  *)
TypeOK ==
    /\ flag \in [Streams -> SUBSET Flags] /\ unget \in [Streams -> Bytes]
    /\ DOMAIN host \subseteq 0..(3 + Cardinality(Slots) + 1)
    /\ \A f \in DOMAIN data : data[f] \in Seq(Bytes) /\ Len(data[f]) <= MaxLength
    /\ \A s \in Streams : Open(s) => flag[s] \cap {"READ", "WRIT"} # {} /\ fd[s] >= 0
    /\ \A s \in Streams : "EOF" \in flag[s] => "UNGET" \notin flag[s]

(* No descriptor is lost or shared: whatever sequence of fopen, freopen that   *)
(* fails or not, fclose and reuse of a slot, each one the program opened is    *)
(* that of one open stream, and none is left when the program ends.          *)
DescriptorsOwned ==
    IF running THEN
      /\ \A d \in DOMAIN host : d > 2 => Cardinality({s \in Streams : Open(s) /\ fd[s] = d}) = 1
      /\ \A s \in Streams : Open(s) => fd[s] \in DOMAIN host
    ELSE DOMAIN host = {0}

(* What the program is to read next. *)
Ahead(fp) == Pushed(fp) \o Next_n(fp, Len(File(fp)) - Position(fp))

(* A read gives the program what is ahead on the stream, the character pushed *)
(* back first and once, and leaves ahead what it did not give, however the    *)
(* host splits it, the error that cuts it short included; and it gives less   *)
(* than it was asked for only when the stream says why.                       *)
ReadsInOrder ==
    [][\A fp \in Streams : op'.fp = fp =>
         /\ op'.got # <<>> => Ahead(fp) = op'.got \o Ahead(fp)'
         /\ op'.short => flag'[fp] \cap {"EOF", "ERR"} # {}]_vars
=============================================================================
