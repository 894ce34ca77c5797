------------------------------- MODULE Timespec -------------------------------
(***************************************************************************)
(* The arithmetic of struct ubx_timespec: ubx_ts_cmp, ubx_ts_norm,         *)
(* ubx_ts_sub and ubx_ts_add of src/ubx.c, and time.normalize of           *)
(* lua/time.lua, which the scripts use for the same records.  A timespec   *)
(* is normal when its nsec part is less than a second and its two parts    *)
(* have the same sign.  The width of long is left out: no clock value      *)
(* comes near it.                                                          *)
(***************************************************************************)
EXTENDS Integers

CONSTANT NSEC_PER_SEC

ASSUME NsecAssumption == NSEC_PER_SEC \in Nat \ {0}

Timespec == [sec : Int, nsec : Int]

(* The length of time a record stands for, in nanoseconds.                 *)
Value(ts) == NSEC_PER_SEC * ts.sec + ts.nsec

Normal(ts) ==
  /\ -NSEC_PER_SEC < ts.nsec /\ ts.nsec < NSEC_PER_SEC
  /\ ts.sec > 0 => ts.nsec >= 0
  /\ ts.sec < 0 => ts.nsec <= 0

----------------------------------------------------------------------------
(* C's division and remainder: towards zero.                               *)
CDiv(a) == IF a >= 0 THEN a \div NSEC_PER_SEC ELSE -((-a) \div NSEC_PER_SEC)
CMod(a) == IF a >= 0 THEN a % NSEC_PER_SEC ELSE -((-a) % NSEC_PER_SEC)

(* The first half of ubx_ts_norm: whole seconds move out of nsec, for a    *)
(* positive nsec and for a negative one (nsec % -NSEC_PER_SEC has the sign *)
(* of nsec).                                                               *)
Carry(ts) ==
  IF ts.nsec >= NSEC_PER_SEC \/ ts.nsec <= -NSEC_PER_SEC
    THEN [sec |-> ts.sec + CDiv(ts.nsec), nsec |-> CMod(ts.nsec)]
    ELSE ts

(* Its second half: the two parts get the same sign.                       *)
SameSign(ts) ==
  IF ts.sec > 0 /\ ts.nsec < 0
    THEN [sec |-> ts.sec - 1, nsec |-> ts.nsec + NSEC_PER_SEC]
  ELSE IF ts.sec < 0 /\ ts.nsec > 0
    THEN [sec |-> ts.sec + 1, nsec |-> ts.nsec - NSEC_PER_SEC]
  ELSE ts

(* Mutant of Norm: the signs are left as the subtraction made them.        *)
CarryOnly(ts) == Carry(ts)

(* ubx_ts_norm.                                                            *)
Norm(ts) == SameSign(Carry(ts))

(* ubx_ts_sub and ubx_ts_add.                                              *)
Sub(t1, t2) == Norm([sec |-> t1.sec - t2.sec, nsec |-> t1.nsec - t2.nsec])
Add(t1, t2) == Norm([sec |-> t1.sec + t2.sec, nsec |-> t1.nsec + t2.nsec])

(* Mutant of Cmp: the seconds alone decide.                                *)
CmpSec(t1, t2) ==
  IF t1.sec > t2.sec THEN 1 ELSE IF t1.sec < t2.sec THEN -1 ELSE 0

(* ubx_ts_cmp: 1, -1 or 0.                                                 *)
Cmp(t1, t2) ==
  IF t1.sec > t2.sec THEN 1
  ELSE IF t1.sec < t2.sec THEN -1
  ELSE IF t1.nsec > t2.nsec THEN 1
  ELSE IF t1.nsec < t2.nsec THEN -1
  ELSE 0

----------------------------------------------------------------------------
(* time.normalize: its first loop stops at nsec = ns_per_s, one later than *)
(* ubx_ts_norm; the second stops like it.                                  *)
LuaCarry(ts) ==
  IF ts.nsec > NSEC_PER_SEC
    THEN LET k == (ts.nsec - 1) \div NSEC_PER_SEC
         IN  [sec |-> ts.sec + k, nsec |-> ts.nsec - k * NSEC_PER_SEC]
  ELSE IF ts.nsec <= -NSEC_PER_SEC
    THEN LET k == (-ts.nsec) \div NSEC_PER_SEC
         IN  [sec |-> ts.sec - k, nsec |-> ts.nsec + k * NSEC_PER_SEC]
  ELSE ts

LuaNormalize(ts) == SameSign(LuaCarry(ts))
=============================================================================
