-------------------------------- MODULE Calc --------------------------------
(***************************************************************************)
(* The arithmetic of the shell's calc command (src/src/shell.rs) on signed *)
(* integers of WIDTH bits (i64 in the code), in the build that run.sh      *)
(* makes, which traps overflow.                                            *)
(***************************************************************************)
EXTENDS Integers

CONSTANT WIDTH   (* bits of an operand                                      *)

Half   == 2 ^ (WIDTH - 1)

(* That a power of two is a positive number is said here because the provers *)
(* know nothing of powers.                                                   *)
ASSUME WidthAssumption == WIDTH \in Nat /\ WIDTH > 1 /\ Half \in Nat /\ Half > 0

MinInt    == - Half
MaxInt    == Half - 1
Int64     == MinInt .. MaxInt
Operators == {"+", "-", "*", "/", "%", "other"}

Value(v) == [is |-> "value", val |-> v]
Panic    == [is |-> "panic", val |-> 0]
Error    == [is |-> "error", val |-> 0]

(* The result of an operation that traps when it leaves the type.           *)
Checked(v) == IF v \in Int64 THEN Value(v) ELSE Panic

Abs(n)  == IF n < 0 THEN - n ELSE n
Sign(n) == IF n < 0 THEN -1 ELSE 1

(* Mutation: the quotient is rounded down.                                  *)
QuotientFloor(a, b) == IF b < 0 THEN (- a) \div (- b) ELSE a \div b

(* The processor divides magnitudes: the quotient is cut off, and the        *)
(* remainder has the sign of the dividend.                                   *)
Quotient(a, b)  == Sign(a) * Sign(b) * (Abs(a) \div Abs(b))
Remainder(a, b) == a - b * Quotient(a, b)

(* Division and remainder trap together: MinInt / -1 does not fit.           *)
Divides(a, b, v) == IF Quotient(a, b) \in Int64 THEN Value(v) ELSE Panic

(* What the command prints for two numbers, or that it panics.               *)
CalcCommand(a, op, b) ==
  CASE op = "+" -> Checked(a + b)
    [] op = "-" -> Checked(a - b)
    [] op = "*" -> Checked(a * b)
    [] op = "/" /\ b # 0 -> Divides(a, b, Quotient(a, b))
    [] op = "%" /\ b # 0 -> Divides(a, b, Remainder(a, b))
    [] OTHER -> Error

-----------------------------------------------------------------------------
VARIABLE shown   (* the last calc line and what came of it                   *)

Nothing == [op |-> "none"]

Calculate ==
  \E a, b \in Int64, op \in Operators :
    shown' = [a |-> a, op |-> op, b |-> b, result |-> CalcCommand(a, op, b)]

-----------------------------------------------------------------------------
(* The division theorem with the quotient cut off towards zero.              *)
Divided(a, b, q, r) ==
  /\ a = b * q + r
  /\ Abs(r) < Abs(b)
  /\ r # 0 => Sign(r) = Sign(a)

(* calc never shows a wrong number: it refuses exactly an unknown operator    *)
(* and a zero divisor, stops the kernel exactly when a sum, difference or     *)
(* product leaves the type and for MinInt by -1, in / and in % alike, and     *)
(* every other result is the one arithmetic asks for.                         *)
CalcExact ==
  shown # Nothing =>
    LET a == shown.a
        b == shown.b
        v == shown.result.val
        is(what) == shown.result.is = what
        by(ops)  == shown.op \in ops
    IN  /\ is("error") <=> by({"other"}) \/ (by({"/", "%"}) /\ b = 0)
        /\ is("panic") <=> \/ by({"+"}) /\ a + b \notin Int64
                           \/ by({"-"}) /\ a - b \notin Int64
                           \/ by({"*"}) /\ a * b \notin Int64
                           \/ by({"/", "%"}) /\ a = MinInt /\ b = -1
        /\ is("value") => /\ by({"+"}) => v - b = a
                          /\ by({"-"}) => v + b = a
                          /\ by({"*"}) => v = a * b
                          /\ by({"/"}) => \E r \in Int64 : Divided(a, b, v, r)
                          /\ by({"%"}) => \E q \in Int64 : Divided(a, b, q, v)
=============================================================================
