----------------------------- MODULE KeygenMem -----------------------------
(***************************************************************************)
(* The working area of key generation: keygen_inner() with its retries,    *)
(* solve_NTRU() and the KEYGEN handler around them, as a sequence of       *)
(* statements that read and write arrays of the area.  An array is a       *)
(* record of its place, its element size and the value it holds; mem is    *)
(* the set of arrays that are intact.  A statement removes the arrays it   *)
(* overlaps and adds its results; lost collects what it read without       *)
(* finding it and what it wrote where it must not.  Values are names, with *)
(* the depth in the tower they belong to; every test of a value may go     *)
(* either way.                                                             *)
(***************************************************************************)
EXTENDS Integers, Sequences, FiniteSets, FiniteSetsExt

CONSTANT Degrees            \* the values of logn

ASSUME DegreesAssumption == Degrees \subseteq 2..10

VARIABLES
    logn,                   \* the parameter
    pc,                     \* the next statement
    depth,                  \* depth in solve_NTRU(), logn in its first part
    d,                      \* level of make_fg_step(), or statement of solve_NTRU_depth0()
    scale_FG, FGlen,        \* of the reduction loop
    mem, lost

kgvars == <<logn, pc, depth, d, scale_FG, FGlen, mem, lost>>

-----------------------------------------------------------------------------
\* Words of a coefficient of f and g, of the unreduced F, of the window of f that is
\* looked at, and the depth from which f and g are saved.
MAX_BL_SMALL == [i \in 0..10 |-> <<1, 1, 2, 3, 4, 8, 14, 27, 53, 104, 207>>[i + 1]]
MAX_BL_LARGE == [i \in 0..9 |-> <<1, 2, 3, 6, 11, 21, 40, 78, 155, 308>>[i + 1]]
WORD_WIN == [i \in 0..9 |-> <<1, 1, 2, 2, 2, 3, 3, 4, 5, 7>>[i + 1]]

\* Mutant: at degree 1024 one more level is saved.
SaveOneMore == [i \in 0..10 |-> <<0, 0, 1, 2, 2, 2, 2, 2, 3, 3, 3>>[i + 1]]

MIN_SAVE_FG == [i \in 0..10 |-> <<0, 0, 1, 2, 2, 2, 2, 2, 3, 3, 4>>[i + 1]]

\* In words, the end of the saved polynomials.
FG_SAVE_OFFSET == 5 * 2^logn

\* Coefficients at depth k, words of f or g there.
Deg(k) == 2^(logn - k)
Size(k) == MAX_BL_SMALL[k] * Deg(k)

\* Array of len elements of size bytes, placed at a byte and at a word.
ByteArray(at, size, len, what) == [at |-> at, end |-> at + size * len, size |-> size, what |-> what]
WordArray(at, len, what) == ByteArray(4 * at, 4, len, what)
FxrArray(at, len, what) == ByteArray(4 * at, 8, len, what)

Overlap(r, w) == r.at < w.end /\ w.at < r.end

-----------------------------------------------------------------------------
\* Where keygen_inner() puts f and g, and the handler the encoded keys.
TopF == ByteArray(20 * Deg(0), 1, Deg(0), <<"f", 0>>)
TopG == ByteArray(21 * Deg(0), 1, Deg(0), <<"g", 0>>)

fg_nbits == CASE logn <= 5 -> 8 [] logn \in 6..7 -> 7 [] logn \in 8..9 -> 6 [] OTHER -> 5
FNDSA_SIGN_KEY_SIZE ==
    65 + (12 - Cardinality({l \in {6, 8, 10} : logn >= l})) * 2^(logn - 2)
FNDSA_VRFY_KEY_SIZE == 1 + 7 * 2^(logn - 2)
FALCON_LR_AREA_SIZE == 27648

sk == FALCON_LR_AREA_SIZE - 64 - FNDSA_SIGN_KEY_SIZE - FNDSA_VRFY_KEY_SIZE
vk == sk + FNDSA_SIGN_KEY_SIZE

flen == (fg_nbits * 2^logn) \div 8
SkF == ByteArray(sk + 1, 1, flen, <<"sk f", 0>>)
SkG == ByteArray(sk + 1 + flen, 1, flen, <<"sk g", 0>>)
SkBigF == ByteArray(sk + 1 + 2 * flen, 1, Deg(0), <<"sk F", 0>>)
SkHash == ByteArray(sk + 1 + 2 * flen + Deg(0), 1, 64, <<"sk hash", 0>>)
Vk == ByteArray(vk, 1, FNDSA_VRFY_KEY_SIZE, <<"vk", 0>>)

-----------------------------------------------------------------------------
\* An access in the temporary area, 22n bytes of tmp_len = 22n + 31, or in the encoded
\* keys, which must lie outside it; aligned for its type.
Allowed(w) ==
    /\ \/ w.end <= 22 * Deg(0)
       \/ w.at >= 22 * Deg(0) + 31 /\ w.end <= FALCON_LR_AREA_SIZE
    /\ w.at % w.size = 0

\* Two arrays of one statement share memory; an output may replace the input it is computed
\* from, word by word.
Clash(in, tmp, out) ==
    {w \in tmp \cup out : \E r \in (in \cup tmp \cup out) \ {w} :
        Overlap(w, r) /\ ~(w \in out /\ r \in in /\ w.at = r.at)}

Faults(in, tmp, out) ==
    (in \ mem) \cup Clash(in, tmp, out) \cup {w \in in \cup tmp \cup out : ~Allowed(w)}

\* A statement that reads in, uses tmp and leaves out.
Do(in, tmp, out) ==
    /\ lost' = Faults(in, tmp, out)
    /\ mem' = {r \in mem : \A w \in tmp \cup out : ~Overlap(r, w)} \cup out

\* memmove(), whose source and destination may overlap.
Move(from, to) ==
    /\ lost' = {r \in {from} : r \notin mem} \cup {w \in {from, to} : ~Allowed(w)}
    /\ mem' = {r \in mem : ~Overlap(r, to)} \cup {to}

Goto(label) == pc' = label
Same(v) == UNCHANGED <<logn, v>>
Loop == <<scale_FG, FGlen>>

\* "continue": what is in memory belongs to an attempt that is given up.
Retry ==
    /\ mem' = {} /\ Goto("sample_f")
    /\ depth' = logn /\ d' = 0 /\ scale_FG' = 0 /\ FGlen' = 0 /\ UNCHANGED logn

\* A statement that ends in a test.
Test(in, tmp, out, label) ==
    \/ Do(in, tmp, out) /\ Goto(label) /\ Same(<<depth, d, Loop>>)
    \/ lost' = Faults(in, tmp, out) /\ Retry

-----------------------------------------------------------------------------
(* keygen_inner() up to solve_NTRU().                                      *)

SampleF ==
    /\ pc = "sample_f" /\ Do({}, {}, {TopF}) /\ Goto("invertible") /\ Same(<<depth, d, Loop>>)

Invertible ==
    /\ pc = "invertible"
    /\ Test({TopF}, {ByteArray(0, 2, Deg(0), <<"ntt", 0>>)}, {}, "sample_g")

SampleG ==
    /\ pc = "sample_g" /\ Do({}, {}, {TopG}) /\ Goto("norm") /\ Same(<<depth, d, Loop>>)

Norm == pc = "norm" /\ Test({TopF, TopG}, {}, {}, "ortho")

\* The inverse norm in rt3 is self-adjoint and takes half of the room.
check_ortho_norm ==
    /\ pc = "ortho"
    /\ Test({TopF, TopG},
            {FxrArray(0, Deg(0), <<"rt1", 0>>), FxrArray(2 * Deg(0), Deg(0), <<"rt2", 0>>),
             FxrArray(4 * Deg(0), Deg(1), <<"rt3", 0>>)}, {}, "make_fg")

-----------------------------------------------------------------------------
(* f and g at a depth, at the start of the area for the deepest level, and *)
(* after F from the deeper level otherwise.                                *)

FgAt == IF depth = logn THEN 0 ELSE Size(depth + 1)
Fg(at, k) == WordArray(at, 2 * Size(k), <<"fg", k>>)

\* The saved f and g of depth k, below those of the lesser depths.
sav_off(k) == FG_SAVE_OFFSET - MapThenSumSet(LAMBDA j : 2 * Size(j), MIN_SAVE_FG[logn]..k)

FgDone(k) ==
    IF k = depth THEN IF depth = logn THEN "deepest" ELSE "shift_fg" ELSE "fg_move"

make_fg_zero ==
    /\ pc = "make_fg"
    /\ Do({TopF, TopG}, {WordArray(FgAt + 2 * Deg(0), Deg(0), <<"gm", 0>>)}, {Fg(FgAt, 0)})
    /\ d' = 0 /\ Goto(FgDone(0)) /\ Same(<<depth, Loop>>)

\* make_fg_step(): the source moves behind the room of the result,
FgSource == FgAt + 2 * Size(d + 1)
FgStepMove ==
    /\ pc = "fg_move" /\ Move(Fg(FgAt, d), Fg(FgSource, d))
    /\ Goto("fg_step") /\ Same(<<depth, d, Loop>>)

\* ... and t1 serves the NTT and the CRT, t2 the remaining words, if any.
make_fg_step ==
    LET slen == MAX_BL_SMALL[d]
        n    == Deg(d)
        room == IF MAX_BL_SMALL[d + 1] > slen THEN Max({2 * n, slen}) ELSE Max({n, slen})
        save == depth = logn /\ d + 1 < logn /\ d + 1 >= MIN_SAVE_FG[logn]
    IN  /\ pc = "fg_step"
        /\ Do({Fg(FgSource, d)}, {WordArray(FgSource + 2 * Size(d), room, <<"t1", d>>)},
              {Fg(FgAt, d + 1)})
        /\ d' = d + 1 /\ Goto(IF save THEN "fg_save" ELSE FgDone(d + 1)) /\ Same(<<depth, Loop>>)

make_fg_deepest ==
    /\ pc = "fg_save" /\ Move(Fg(0, d), Fg(sav_off(d), d))
    /\ Goto(FgDone(d)) /\ Same(<<depth, d, Loop>>)

-----------------------------------------------------------------------------
(* solve_NTRU_deepest() and solve_NTRU_intermediate().                     *)

BigF(at, k, len) == WordArray(at, len * Deg(k), <<"F", k>>)

\* fp and gp behind Fp and Gp, then the CRT, zint_bezout() and zint_mul_small() with t1.
DeepestMove ==
    /\ pc = "deepest" /\ Move(Fg(0, logn), Fg(2 * MAX_BL_SMALL[logn], logn))
    /\ Goto("bezout") /\ Same(<<depth, d, Loop>>)

solve_NTRU_deepest ==
    LET len == MAX_BL_SMALL[logn]
        in  == {Fg(2 * len, logn)}
        tmp == {WordArray(len, len, <<"G", logn>>), WordArray(4 * len, 4 * len, <<"t1", logn>>)}
        out == {BigF(0, logn, len)}
    IN  /\ pc = "bezout"
        /\ \/ Do(in, tmp, out) /\ Goto("load") /\ depth' = logn - 1 /\ Same(<<d, Loop>>)
           \/ lost' = Faults(in, tmp, out) /\ Retry

\* f and g of this level: computed again, or from where make_fg_deepest() saved them.
LoadFg ==
    /\ pc = "load"
    /\ \/ /\ depth < MIN_SAVE_FG[logn]
          /\ Goto("make_fg") /\ Same(<<depth, d, Loop, mem, lost>>)
       \/ /\ depth >= MIN_SAVE_FG[logn]
          /\ Move(Fg(sav_off(depth), depth), Fg(FgAt, depth))
          /\ Goto("shift_fg") /\ Same(<<depth, d, Loop>>)

slen == MAX_BL_SMALL[depth]
llen == MAX_BL_LARGE[depth]
dlen == MAX_BL_SMALL[depth + 1]
\* The places, in words, of ft, gt and Fd.
Ft == llen * Deg(depth)
Gt == Ft + slen * Deg(depth)
Fd == Gt + slen * Deg(depth)

ShiftFg ==
    /\ pc = "shift_fg" /\ Move(Fg(FgAt, depth), Fg(Ft, depth))
    /\ d' = 0 /\ Goto("shift_F") /\ Same(<<depth, Loop>>)

ShiftF ==
    /\ pc = "shift_F" /\ Move(BigF(0, depth + 1, dlen), BigF(Fd, depth + 1, dlen))
    /\ Goto("rns") /\ Same(<<depth, d, Loop>>)

Fe(what) == WordArray(0, llen * Deg(depth), <<what, depth>>)
PlainF == WordArray(Ft, slen * Deg(depth), <<"f plain", depth>>)

ConvertFd ==
    /\ pc = "rns" /\ Do({BigF(Fd, depth + 1, dlen)}, {}, {Fe("Fd rns")})
    /\ Goto("unreduced") /\ Same(<<depth, d, Loop>>)

\* gm, igm and gx over Fd, as is the product of primes of the CRT on f and g.
UnreducedF ==
    /\ pc = "unreduced"
    /\ Do({Fe("Fd rns"), Fg(Ft, depth)}, {WordArray(Fd, Max({3 * Deg(depth), slen}), <<"gm", depth>>)},
          {Fe("F rns"), PlainF})
    /\ Goto("rebuild") /\ Same(<<depth, d, Loop>>)

\* g is no longer needed: its place serves the CRT on F.
RebuildF ==
    /\ pc = "rebuild"
    /\ Do({Fe("F rns"), PlainF}, {WordArray(Gt, llen, <<"t1", depth>>)}, {BigF(0, depth, llen)})
    /\ Goto("fixed") /\ Same(<<depth, d, Loop>>)

MIN_LOGN_FGNTT == 4
use_sub_ntt == depth > 1 /\ logn - depth >= MIN_LOGN_FGNTT

rt3 == Gt + (IF use_sub_ntt THEN Deg(depth) ELSE 0)
rt1 == rt3 + 2 * Deg(depth)
t2 == rt1 + Deg(depth)
InvF == FxrArray(rt3, Deg(depth), <<"1/f", depth>>)
NttF(at) == WordArray(at, (slen + 1) * Deg(depth), <<"f ntt", depth>>)

ApproximateF ==
    /\ pc = "fixed" /\ Do({PlainF}, {}, {InvF})
    /\ scale_FG' = 31 * llen /\ FGlen' = llen
    /\ Goto(IF use_sub_ntt THEN "f_ntt" ELSE "reduce") /\ Same(<<depth, d>>)

ConvertF ==
    /\ pc = "f_ntt"
    /\ Do({PlainF}, {WordArray(t2, Deg(depth), <<"gm", depth>>)}, {NttF(t2 + Deg(depth))})
    /\ Goto("f_ntt_move") /\ Same(<<depth, d, Loop>>)

ConvertFMove ==
    /\ pc = "f_ntt_move" /\ Move(NttF(t2 + Deg(depth)), NttF(Ft))
    /\ Goto("reduce") /\ Same(<<depth, d, Loop>>)

-----------------------------------------------------------------------------
(* The reduction loop.                                                     *)

DIVREM31(x) == (x * 67651) \div 2^21
reduce_bits == CASE logn = 9 -> 9 [] logn = 10 -> 8 [] OTHER -> 10
scale_fg == 31 * (slen - Min({WORD_WIN[depth], slen}))
NewScale == IF scale_FG <= scale_fg + reduce_bits THEN scale_fg ELSE scale_FG - reduce_bits

\* The while loop: words are given up while the rest still holds the scale.
FGlenAfter == Max({l \in slen..FGlen : 31 * (l - slen) <= NewScale - scale_fg + 30})

\* What k*f is computed from, and the words that takes after k.
SubSource == IF depth = 1 THEN TopF ELSE IF use_sub_ntt THEN NttF(Ft) ELSE PlainF
SubRoom ==
    IF depth = 1 THEN 3 * Deg(depth)
    ELSE IF use_sub_ntt THEN (slen + 3) * Deg(depth) + Max({Deg(depth), slen + 1})
    ELSE 0

\* rt1 is converted in place to k, then t2 overwrites its second half.
ReduceIn == {BigF(0, depth, FGlen), InvF, SubSource}
ReduceTmp == {FxrArray(rt1, Deg(depth), <<"rt1", depth>>)}
ReduceTmp2 == IF SubRoom = 0 THEN {} ELSE {WordArray(t2, SubRoom, <<"t2", depth>>)}

\* The window of F read by poly_big_to_fixed() starts inside F, and at depth 1 F has
\* one or two words.
WindowFault ==
    {w \in {BigF(0, depth, FGlen)} : DIVREM31(scale_FG) > FGlen \/ (depth = 1 /\ FGlen > 2)}

ReduceFaults ==
    Faults(ReduceIn, ReduceTmp, {}) \cup Faults(ReduceIn, ReduceTmp2, {}) \cup WindowFault

\* F keeps its first len words.
Reduced(len) ==
    LET written == ReduceTmp \cup ReduceTmp2 \cup {BigF(0, depth, FGlen)}
    IN  /\ lost' = ReduceFaults
        /\ mem' = {r \in mem : \A w \in written : ~Overlap(r, w)} \cup {BigF(0, depth, len)}

ReduceMore ==
    /\ pc = "reduce" /\ scale_FG > scale_fg
    /\ \/ /\ Reduced(FGlenAfter)
          /\ scale_FG' = NewScale /\ FGlen' = FGlenAfter /\ Same(<<pc, depth, d>>)
       \/ FGlenAfter < FGlen /\ lost' = ReduceFaults /\ Retry

ReduceLast ==
    /\ pc = "reduce" /\ scale_FG <= scale_fg
    /\ Reduced(FGlen)
    /\ scale_FG' = 0 /\ FGlen' = 0 /\ depth' = depth - 1
    /\ Goto(IF depth = 1 THEN "depth0" ELSE "load")
    /\ d' = (IF depth = 1 THEN 1 ELSE 0) /\ UNCHANGED logn

-----------------------------------------------------------------------------
(* solve_NTRU_depth0(), as its statements on t1..t5.                       *)

T(i, what) == WordArray((i - 1) * Deg(0), Deg(0), <<what, 0>>)
Gm(i) == T(i, "gm")
KnFft == FxrArray(2 * Deg(0), Deg(0), <<"kn fft", 0>>)
KdFft(at) == FxrArray(at, Deg(1), <<"kd fft", 0>>)
FdNtt == WordArray(2 * Deg(0), Deg(1), <<"Fd ntt", 0>>)

Stmt(in, tmp, out) == [in |-> in, tmp |-> tmp, out |-> out]
\* k, the rounded quotient of F*adj(f) + G*adj(g) by f*adj(f) + g*adj(g), in t2,
QuotientStmts == <<
    Stmt({BigF(0, 1, 1)}, {Gm(4)}, {FdNtt}),
    Stmt({TopG, FdNtt}, {}, {T(2, "g"), T(1, "F")}),
    Stmt({TopF}, {}, {T(3, "f")}),
    Stmt({T(1, "F"), T(2, "g"), T(3, "f")}, {}, {T(2, "kn"), T(3, "kd")}),
    Stmt({T(2, "kn"), T(3, "kd")}, {Gm(4)}, {T(2, "kn int"), T(3, "kd int")}),
    Stmt({T(3, "kd int")}, {WordArray(4 * Deg(0), Deg(0), <<"kd fft high", 0>>)}, {KdFft(3 * Deg(0))}),
    Stmt({KdFft(3 * Deg(0))}, {}, {KdFft(4 * Deg(0))}),
    Stmt({T(2, "kn int"), KdFft(4 * Deg(0))}, {}, {KnFft}),
    Stmt({KnFft, KdFft(4 * Deg(0))}, {}, {T(2, "k")})
>>

\* ... and F - k*f with its G in t1 and t2.
SubtractStmts == <<
    Stmt({TopF, TopG, T(2, "k")}, {Gm(5)}, {T(2, "k ntt"), T(3, "f"), T(4, "g")}),
    Stmt({T(1, "F"), T(2, "k ntt"), T(3, "f"), T(4, "g")}, {}, {T(1, "F ntt"), T(2, "G ntt")}),
    Stmt({T(1, "F ntt"), T(2, "G ntt")}, {Gm(3)}, {T(1, "F int"), T(2, "G int")})
>>

Depth0Stmts == QuotientStmts \o SubtractStmts

\* The third finds f not invertible modulo p, or goes on.
solve_NTRU_depth0 ==
    /\ pc = "depth0"
    /\ LET s == Depth0Stmts[d]
       IN  \/ /\ Do(s.in, s.tmp, s.out)
              /\ d' = d + 1 /\ Goto(IF d = Len(Depth0Stmts) THEN "small" ELSE pc) /\ Same(<<depth, Loop>>)
           \/ d = 3 /\ lost' = Faults(s.in, s.tmp, s.out) /\ Retry

-----------------------------------------------------------------------------
(* The end of solve_NTRU() and of keygen_inner(), and the handler.         *)

SmallFG(at) == ByteArray(at, 1, 2 * Deg(0), <<"FG", 0>>)

solve_NTRU ==
    /\ pc = "small" /\ Test({T(1, "F int"), T(2, "G int")}, {}, {SmallFG(8 * Deg(0))}, "small_move")

SmallMove ==
    /\ pc = "small_move" /\ Move(SmallFG(8 * Deg(0)), SmallFG(0))
    /\ d' = 0 /\ Goto("encode") /\ Same(<<depth, Loop>>)

EncodeSk ==
    /\ pc = "encode" /\ Do({TopF, TopG, SmallFG(0)}, {}, {SkF, SkG, SkBigF})
    /\ Goto("public") /\ Same(<<depth, d, Loop>>)

H(at) == ByteArray(at, 2, Deg(0), <<"h", 0>>)
VkBuf == ByteArray(2 * Deg(0), 1, FNDSA_VRFY_KEY_SIZE, <<"vk", 0>>)

PublicKey ==
    /\ pc = "public"
    /\ Do({TopF, TopG}, {ByteArray(2 * Deg(0), 2, Deg(0), <<"ft", 0>>), ByteArray(4 * Deg(0), 2, Deg(0), <<"t", 0>>)},
          {H(0)})
    /\ Goto("encode_vk") /\ Same(<<depth, d, Loop>>)

EncodeVk ==
    /\ pc = "encode_vk" /\ Do({H(0)}, {}, {VkBuf})
    /\ Goto("outputs") /\ Same(<<depth, d, Loop>>)

Outputs ==
    /\ pc = "outputs" /\ Do({VkBuf}, {}, {SkHash, Vk})
    /\ Goto("decode") /\ Same(<<depth, d, Loop>>)

\* The handler: the raw key for the record, at the start of the area.
RawKey == {ByteArray(0, 1, Deg(0), <<"f", 0>>), ByteArray(Deg(0), 1, Deg(0), <<"g", 0>>),
           ByteArray(2 * Deg(0), 1, Deg(0), <<"F", 0>>), H(3 * Deg(0))}
HandlerDecode ==
    /\ pc = "decode" /\ Do({SkF, SkG, SkBigF, Vk}, {}, RawKey)
    /\ Goto("done") /\ Same(<<depth, d, Loop>>)

-----------------------------------------------------------------------------
KeygenInit ==
    /\ logn \in Degrees /\ pc = "sample_f" /\ depth = logn /\ d = 0
    /\ scale_FG = 0 /\ FGlen = 0 /\ mem = {} /\ lost = {}

KeygenNext ==
    \/ SampleF \/ Invertible \/ SampleG \/ Norm \/ check_ortho_norm
    \/ make_fg_zero \/ FgStepMove \/ make_fg_step \/ make_fg_deepest
    \/ DeepestMove \/ solve_NTRU_deepest \/ LoadFg \/ ShiftFg \/ ShiftF \/ ConvertFd
    \/ UnreducedF \/ RebuildF \/ ApproximateF \/ ConvertF \/ ConvertFMove
    \/ ReduceMore \/ ReduceLast \/ solve_NTRU_depth0
    \/ solve_NTRU \/ SmallMove \/ EncodeSk \/ PublicKey \/ EncodeVk \/ Outputs \/ HandlerDecode

KeygenSpec == KeygenInit /\ [][KeygenNext]_kgvars

\* Every statement of an attempt finds, intact and of the same attempt, what earlier ones
\* left for it: f and g through the whole of solve_NTRU(), F from the deeper level with as
\* many words as that level ended with, the f and g saved below FG_SAVE_OFFSET.  No array
\* reaches beyond the 22n bytes, is misaligned for its type or covers another in use, and
\* the encoded keys lie outside of the temporary area, until the handler has decoded them.
KeygenMemory == lost = {}
=============================================================================
