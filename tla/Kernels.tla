------------------------------ MODULE Kernels ------------------------------
(***************************************************************************)
(* The fused kernels of projects/07-triton-kernels: one program per row    *)
(* goes over the row tile by tile; the programs of a launch interleave and *)
(* share the memory.  kernels.py and its NumPy twin in reference.py.       *)
(*                                                                         *)
(* Numbers are whole and e is 2: the rescaling identity holds in any base. *)
(* exp(x - max) is scaled by 2^Scale, a quotient is left as its numerator  *)
(* and denominator, and so is rstd: by the sum of squares it is made of.   *)
(* Rounding to the element type is left out.                               *)
(* X_Y is a wrong variant of X, unused by the model.                       *)
(***************************************************************************)
EXTENDS Queues, FiniteSetsExt

CONSTANTS
  NumRows, NumCols, Block,     \* the tensor, and BLOCK_SIZE of the tiled kernels
  Logits, Numbers,             \* what a softmax, and a norm, may be given
  Residual,                    \* the residual of every element
  Scale                        \* what 2^Scale can express: no logit is further from the maximum

NegInf == -1000000             \* -float("inf")

ASSUME KernelsAssumption ==
  /\ {NumRows, NumCols, Block} \subseteq Nat \ {0} /\ Scale \in Nat
  /\ Numbers \subseteq Int /\ Residual \in Int
  /\ Logits \subseteq {n \in Int : n >= NegInf} /\ \A a, b \in Logits \ {NegInf} : a - b <= Scale

VARIABLES
  kernel,                      \* "softmax", "online", "rmsnorm", "add_rmsnorm"
  input,                       \* in_ptr: the rows, one after the other
  pass_no, offset,             \* of each program: 1 reduce, 2 write, 3 over; the tile it is at
  row_max, row_sum,            \* of each program: the running maximum, the running sum
  not_numbers,                 \* the programs whose sum is not a number
  resid_out, out               \* what has been written

kernelVars == <<kernel, input, pass_no, offset, row_max, row_sum, not_numbers, resid_out, out>>

-----------------------------------------------------------------------------
Rows == 0..NumRows - 1
Cols == 0..NumCols - 1
Address(r, c) == r * NumCols + c
Cells == {Address(r, c) : r \in Rows, c \in Cols}
Unset == [num |-> 0, den |-> 0]

\* softmax holds the whole row: the next power of two.
Pow2(n) ==
  LET pow[i \in 0..n] == IF i = 0 THEN 1 ELSE 2 * pow[i - 1]
  IN pow[n]
BlockSize ==
  IF kernel = "softmax" THEN Pow2(Min({n \in 0..NumCols : Pow2(n) >= NumCols})) ELSE Block
Lanes(r) == offset[r]..offset[r] + BlockSize - 1
Mask(c) == c < NumCols
LastTile(r) == offset[r] + BlockSize >= NumCols

\* tl.load: a masked lane holds `other`, which adds nothing to the reduction.
Other == IF kernel \in {"softmax", "online"} THEN NegInf ELSE 0
Load(mem, r, c) == IF Mask(c) THEN mem[Address(r, c)] ELSE Other
Stored(mem, r, tile) ==
  [a \in Cells |-> IF \E c \in Lanes(r) : Mask(c) /\ a = Address(r, c) THEN tile[a - Address(r, 0)] ELSE mem[a]]

\* exp(a - top): a masked value counts nothing.
Exp(a, top) == IF a = NegInf THEN 0 ELSE Pow2(Scale + a - top)
Rescaled_Not(sum, from, to) == sum
Rescaled(sum, from, to) == IF from = NegInf THEN 0 ELSE sum \div Pow2(to - from)
SumExp(r, top) == SumFunctionOnSet([c \in Lanes(r) |-> Exp(Load(input, r, c), top)], Lanes(r))

-----------------------------------------------------------------------------
\* The reduction of one tile: a block that raises the maximum rescales the sum
\* so far.  -inf minus -inf is not a number, and nothing heals it.
ReduceMax(r) ==
  LET m_new == Max({row_max[r]} \cup {Load(input, r, c) : c \in Lanes(r)})
  IN /\ row_max' = [row_max EXCEPT ![r] = m_new]
     /\ row_sum' = [row_sum EXCEPT ![r] = Rescaled(@, row_max[r], m_new) + SumExp(r, m_new)]
     /\ not_numbers' = (IF m_new = NegInf THEN not_numbers \cup {r} ELSE not_numbers)
     /\ UNCHANGED resid_out

\* add_rmsnorm writes the new residual on the way.
Added(r, c) == Load(input, r, c) + (IF kernel = "add_rmsnorm" /\ Mask(c) THEN Residual ELSE 0)
ReduceSquares(r) ==
  /\ row_sum' = [row_sum EXCEPT ![r] = @ + SumFunctionOnSet([c \in Lanes(r) |-> Added(r, c) * Added(r, c)], Lanes(r))]
  /\ resid_out' = (IF kernel = "add_rmsnorm" THEN Stored(resid_out, r, [c \in Lanes(r) |-> Added(r, c)]) ELSE resid_out)
  /\ UNCHANGED <<row_max, not_numbers>>

Reduce(r) ==
  /\ pass_no[r] = 1
  /\ IF kernel \in {"softmax", "online"} THEN ReduceMax(r) ELSE ReduceSquares(r)
  /\ pass_no' = [pass_no EXCEPT ![r] = IF LastTile(r) THEN 2 ELSE 1]
  /\ offset' = [offset EXCEPT ![r] = IF LastTile(r) THEN 0 ELSE @ + BlockSize]
  /\ UNCHANGED <<kernel, input, out>>

\* The second pass reads each tile again - add_rmsnorm the residual it wrote -
\* and stores the result of its columns.
Result(r, c) ==
  [num |-> CASE kernel \in {"softmax", "online"} -> Exp(Load(input, r, c), row_max[r])
             [] kernel = "rmsnorm" -> Load(input, r, c)
             [] kernel = "add_rmsnorm" -> Load(resid_out, r, c),
   den |-> row_sum[r]]
Write(r) ==
  /\ pass_no[r] = 2
  /\ out' = Stored(out, r, [c \in Lanes(r) |-> Result(r, c)])
  /\ pass_no' = [pass_no EXCEPT ![r] = IF LastTile(r) THEN 3 ELSE 2]
  /\ offset' = [offset EXCEPT ![r] = IF LastTile(r) THEN 0 ELSE @ + BlockSize]
  /\ UNCHANGED <<kernel, input, row_max, row_sum, not_numbers, resid_out>>

\* The grid of one program per row, on rows xs.
Launch(k, xs) ==
  /\ kernel = k /\ input = xs
  /\ pass_no = [r \in Rows |-> 1] /\ offset = [r \in Rows |-> 0]
  /\ row_max = [r \in Rows |-> NegInf] /\ row_sum = [r \in Rows |-> 0] /\ not_numbers = {}
  /\ resid_out = [a \in Cells |-> 0] /\ out = [a \in Cells |-> Unset]
KernelsInit ==
  \/ \E k \in {"softmax", "online"}, xs \in [Cells -> Logits] : Launch(k, xs)
  \/ \E k \in {"rmsnorm", "add_rmsnorm"}, xs \in [Cells -> Numbers] : Launch(k, xs)
KernelsNext == \E r \in Rows : Reduce(r) \/ Write(r)
KernelsSpec == KernelsInit /\ [][KernelsNext]_kernelVars

-----------------------------------------------------------------------------
\* softmax_stable and rmsnorm of reference.py, over whole rows.
Row(r) == [c \in Cols |-> input[Address(r, c)]]
Top(r) == Max({Row(r)[c] : c \in Cols})
Softmax(r, c) == [num |-> Exp(Row(r)[c], Top(r)),
                  den |-> SumFunctionOnSet([k \in Cols |-> Exp(Row(r)[k], Top(r))], Cols)]
RmsNorm(r, c) ==
  LET s == [k \in Cols |-> Row(r)[k] + (IF kernel = "add_rmsnorm" THEN Residual ELSE 0)]
  IN [num |-> s[c], den |-> SumFunctionOnSet([k \in Cols |-> s[k] * s[k]], Cols)]
Reference(r, c) == IF kernel \in {"softmax", "online"} THEN Softmax(r, c) ELSE RmsNorm(r, c)

\* "The rescaling identity must be exact for any block size", and "the tail
\* lanes must not contaminate the reduction": a program that is over has
\* written its row as the reference computes it, whatever the others do
\* meanwhile, and a row whose program has not written holds nothing yet.  Not
\* so a row that the program starts with nothing but -inf: it is not a number.
KernelsExact ==
  \A r \in Rows :
    /\ r \notin not_numbers /\ pass_no[r] = 3 => \A c \in Cols : out[Address(r, c)] = Reference(r, c)
    /\ kernel = "add_rmsnorm" /\ pass_no[r] = 3 =>
         \A c \in Cols : resid_out[Address(r, c)] = Row(r)[c] + Residual
    /\ pass_no[r] = 1 => \A c \in Cols : out[Address(r, c)] = Unset
    /\ r \in not_numbers => \A c \in Cols : c < BlockSize => Row(r)[c] = NegInf
=============================================================================
