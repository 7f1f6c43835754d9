-------------------------- MODULE CouponDrawProofs --------------------------
(* Theorems about CouponDraw, for every value of its constants. *)
EXTENDS CouponDraw, FiniteSetTheorems, TLAPS

(***************************************************************************)
(* Sequences used as tables: a table grows by one row or has one changed.  *)
(***************************************************************************)

\* Appending a row keeps every old row and adds one index.
LEMMA AppendRow ==
  ASSUME NEW T, NEW s \in Seq(T), NEW r \in T
  PROVE  /\ Append(s, r) \in Seq(T)
         /\ Len(Append(s, r)) = Len(s) + 1
         /\ DOMAIN Append(s, r) = DOMAIN s \cup {Len(s) + 1}
         /\ Len(s) + 1 \notin DOMAIN s
         /\ \A i \in DOMAIN s : Append(s, r)[i] = s[i]
         /\ Append(s, r)[Len(s) + 1] = r
  OBVIOUS

\* Setting the code of a row keeps the table and its indices.
LEMMA WithCodeType ==
  ASSUME coupon \in Seq(Row), NEW id \in Nat
  PROVE  /\ WithCode(id) \in Seq(Row)
         /\ DOMAIN WithCode(id) = DOMAIN coupon
         /\ \A i \in DOMAIN coupon : WithCode(id)[i].user = coupon[i].user
         /\ \A i \in DOMAIN coupon : coupon[i].coded => WithCode(id)[i].coded
         /\ id \in DOMAIN coupon => WithCode(id)[id].coded
<1>1. \A i \in DOMAIN coupon : coupon[i] \in Row
  OBVIOUS
<1>2. \A i \in DOMAIN coupon :
        WithCode(id)[i] = IF i = id THEN [coupon[i] EXCEPT !.coded = TRUE] ELSE coupon[i]
  BY DEF WithCode
<1>3. DOMAIN WithCode(id) = DOMAIN coupon /\ DOMAIN coupon = 1..Len(coupon) /\ Len(coupon) \in Nat
  BY DEF WithCode
<1>4. \A i \in DOMAIN coupon : WithCode(id)[i] \in Row
  BY <1>1, <1>2 DEF Row
<1>5. WithCode(id) = [i \in 1..Len(coupon) |-> WithCode(id)[i]]
  BY <1>3 DEF WithCode
<1>6. WithCode(id) \in Seq(Row)
  BY <1>3, <1>4, <1>5
<1>7. QED
  BY <1>1, <1>2, <1>3, <1>6 DEF Row

\* Setting the user of a row keeps the table and its indices.
LEMMA WithUserType ==
  ASSUME coupon \in Seq(Row), NEW w \in Workers, user[w] \in Users, code[w] \in Nat
  PROVE  /\ WithUser(w) \in Seq(Row)
         /\ DOMAIN WithUser(w) = DOMAIN coupon
         /\ \A i \in DOMAIN coupon : i # code[w] => WithUser(w)[i] = coupon[i]
         /\ code[w] \in DOMAIN coupon => WithUser(w)[code[w]].user = user[w]
<1>1. \A i \in DOMAIN coupon : coupon[i] \in Row
  OBVIOUS
<1>2. \A i \in DOMAIN coupon :
        WithUser(w)[i] = IF i = code[w] THEN [coupon[i] EXCEPT !.user = user[w]] ELSE coupon[i]
  BY DEF WithUser
<1>3. DOMAIN WithUser(w) = DOMAIN coupon /\ DOMAIN coupon = 1..Len(coupon) /\ Len(coupon) \in Nat
  BY DEF WithUser
<1>4. \A i \in DOMAIN coupon : WithUser(w)[i] \in Row
  BY <1>1, <1>2 DEF Row
<1>5. WithUser(w) = [i \in 1..Len(coupon) |-> WithUser(w)[i]]
  BY <1>3 DEF WithUser
<1>6. WithUser(w) \in Seq(Row)
  BY <1>3, <1>4, <1>5
<1>7. QED
  BY <1>1, <1>2, <1>3, <1>6 DEF Row

-----------------------------------------------------------------------------
(***************************************************************************)
(* Type correctness.                                                       *)
(***************************************************************************)

\* A pushed list is a list of codes, no longer than the capacity if the old
\* one was not.
LEMMA PushType ==
  ASSUME NEW codes \in Seq(Nat), NEW id \in Nat
  PROVE  Push(codes, id) \in Seq(Nat)
<1>1. Len(codes) >= cache_codes_capacity => codes # << >>
  BY DrawAssumption
<1>2. codes # << >> => Tail(codes) \in Seq(Nat)
  OBVIOUS
<1>3. QED
  BY <1>1, <1>2 DEF Push

\* A worker's write statement, whether it succeeds or fails half way, keeps
\* the types of the database.
LEMMA EffectType ==
  ASSUME TypeOK, NEW w \in Workers
  PROVE  /\ DoInsertCoupon(w) => coupon' \in Seq(Row) /\ code' \in [Workers -> Nat]
         /\ DoFillCode(w) => coupon' \in Seq(Row)
         /\ \A n \in Nat : DoIncrDrawn(n) => drawn_count' \in Nat
         /\ DoSetUser(w) => coupon' \in Seq(Row)
         /\ DoInsertUserCoupon(w) => userCoupons' \in Seq(UserCoupon)
<1>1. user[w] \in Users /\ code[w] \in Nat
  BY DEF TypeOK
<1>2. coupon \in Seq(Row) /\ userCoupons \in Seq(UserCoupon)
  BY DEF TypeOK
<1>3. [user |-> user[w], coded |-> FALSE] \in Row
  BY <1>1 DEF Row
<1>4. UserCouponRow(w) \in UserCoupon
  BY <1>1 DEF UserCouponRow, UserCoupon
<1>5. DoInsertCoupon(w) => coupon' \in Seq(Row) /\ code' \in [Workers -> Nat]
  BY <1>2, <1>3 DEF DoInsertCoupon, TypeOK
<1>6. DoFillCode(w) => coupon' \in Seq(Row)
  BY <1>1, <1>2, WithCodeType DEF DoFillCode
<1>7. \A n \in Nat : DoIncrDrawn(n) => drawn_count' \in Nat
  BY DEF DoIncrDrawn, Increment, TypeOK
<1>8. DoSetUser(w) => coupon' \in Seq(Row)
  BY <1>1, <1>2, WithUserType DEF DoSetUser
<1>9. DoInsertUserCoupon(w) => userCoupons' \in Seq(UserCoupon)
  BY <1>2, <1>4 DEF DoInsertUserCoupon
<1>10. QED
  BY <1>5, <1>6, <1>7, <1>8, <1>9

\* So does whichever write the worker has come to.
LEMMA EffectDb ==
  ASSUME TypeOK, NEW w \in Workers, Effect(w) \/ UNCHANGED <<db, code>>
  PROVE  /\ table' \in BOOLEAN /\ coupon' \in Seq(Row) /\ drawn_count' \in Nat
         /\ userCoupons' \in Seq(UserCoupon) /\ code' \in [Workers -> Nat]
<1> USE DEF TypeOK
<1>1. CASE DoInsertCoupon(w)
  BY <1>1, EffectType DEF DoInsertCoupon
<1>2. CASE DoFillCode(w)
  BY <1>2, EffectType DEF DoFillCode
<1>3. CASE DoIncrDrawn(1)
  BY <1>3, EffectType DEF DoIncrDrawn
<1>4. CASE DoSetUser(w)
  BY <1>4, EffectType DEF DoSetUser
<1>5. CASE DoInsertUserCoupon(w)
  BY <1>5, EffectType DEF DoInsertUserCoupon
<1>6. CASE UNCHANGED <<db, code>>
  BY <1>6 DEF db
<1>7. QED
  BY <1>1, <1>2, <1>3, <1>4, <1>5, <1>6 DEF Effect

\* Every control point a worker is sent to is one of Steps.
LEMMA GotoType ==
  ASSUME TypeOK, NEW w \in Workers, NEW step \in Steps, Goto(w, step)
  PROVE  pc' \in [Workers -> Steps]
  BY DEF TypeOK, Goto

LEMMA AfterType ==
  /\ After["checkUser"] \in Steps
  /\ After["lock"] \in Steps
  /\ After["incrDrawn"] \in Steps
<1>1. CASE scene = "issue"
  BY <1>1 DEF After, Steps, Writes
<1>2. CASE scene # "issue"
  BY <1>2 DEF After, Steps, Writes
<1>3. QED
  BY <1>1, <1>2

\* The scene of a group never changes.
LEMMA SceneStep ==
  ASSUME NEW w \in Workers, Step(w)
  PROVE  scene' = scene
<1> USE DEF db
<1>1. Effect(w) => scene' = scene
  BY DEF Effect, DoInsertCoupon, DoFillCode, DoIncrDrawn, DoSetUser, DoInsertUserCoupon
<1>2. CASE \/ BeginSoldOut(w) \/ CountReal(w) \/ TableMissing(w) \/ CheckList(w)
           \/ ListUnread(w) \/ CheckUser(w) \/ FindCoupon(w) \/ Refuse(w) \/ AcquireLock(w)
  BY <1>2 DEF BeginSoldOut, CountReal, TableMissing, CheckList, ListUnread, CheckUser,
              FindCoupon, Refuse, AcquireLock
<1>3. CASE \/ InsertConflict(w) \/ SetUserUnchanged(w) \/ InsertUserCouponUnnoticed(w)
           \/ Unlock(w) \/ Abort(w) \/ WriteList(w) \/ WriteCache(w)
  BY <1>3 DEF InsertConflict, SetUserUnchanged, InsertUserCouponUnnoticed, Unlock, Abort,
              WriteList, WriteCache
<1>4. CASE \/ InsertCoupon(w) \/ FillCode(w) \/ IncrDrawn(w) \/ SetUser(w)
           \/ InsertUserCoupon(w)
  BY <1>4 DEF InsertCoupon, FillCode, IncrDrawn, SetUser, InsertUserCoupon,
              DoInsertCoupon, DoFillCode, DoIncrDrawn, DoSetUser, DoInsertUserCoupon
<1>5. CASE WriteFails(w) \/ WriteRepeated(w)
  BY <1>1, <1>5 DEF WriteFails, WriteRepeated, DoIncrDrawn
<1>6. QED
  BY <1>2, <1>3, <1>4, <1>5 DEF Step

LEMMA SceneRigid == [Next]_vars => scene' = scene
<1>1. ASSUME NEW w \in Workers, NEW u \in Users, Begin(w, u)
      PROVE  scene' = scene
  BY <1>1 DEF Begin, db
<1>2. AdminCreateTable \/ (\E u \in Users : LockExpires(u)) \/ Crash \/ UNCHANGED vars
        => scene' = scene
  BY DEF AdminCreateTable, LockExpires, Crash, vars, db
<1>3. QED
  BY <1>1, <1>2, SceneStep DEF Next

\* One step of a worker keeps every variable in its type.
LEMMA StepType ==
  ASSUME TypeOK, NEW w \in Workers, Step(w)
  PROVE  TypeOK'
<1> USE DEF TypeOK, Goto, Answer, Quiet, NoFault, Fault, db, redis, local, Answers
<1>s. /\ "idle" \in Steps /\ "countReal" \in Steps /\ "checkList" \in Steps
      /\ "checkUser" \in Steps /\ "lock" \in Steps /\ "unlock" \in Steps
      /\ "abort" \in Steps /\ "writeList" \in Steps /\ "writeCache" \in Steps
      /\ "fillCode" \in Steps /\ "incrDrawn" \in Steps /\ "insertUserCoupon" \in Steps
  BY DEF Steps, Writes
<1>1. CASE BeginSoldOut(w)
  BY <1>1, <1>s, AfterType DEF BeginSoldOut
<1>2. CASE CountReal(w)
  BY <1>2, <1>s, AfterType DEF CountReal
<1>3. CASE TableMissing(w)
  BY <1>3, <1>s, AfterType DEF TableMissing
<1>4. CASE CheckList(w)
  BY <1>4, <1>s, AfterType DEF CheckList
<1>5. CASE ListUnread(w)
  BY <1>5, <1>s, AfterType DEF ListUnread
<1>6. CASE CheckUser(w)
  BY <1>6, <1>s, AfterType DEF CheckUser
<1>7. CASE FindCoupon(w)
  BY <1>7, <1>s, AfterType DEF FindCoupon
<1>8. CASE Refuse(w)
  BY <1>8, <1>s, AfterType DEF Refuse
<1>9. CASE AcquireLock(w)
  BY <1>9, <1>s, AfterType DEF AcquireLock, Holder
<1>10. CASE InsertConflict(w)
  BY <1>10, <1>s, AfterType DEF InsertConflict
<1>11. CASE SetUserUnchanged(w)
  BY <1>11, <1>s, AfterType DEF SetUserUnchanged
<1>12. CASE InsertUserCouponUnnoticed(w)
  BY <1>12, <1>s, AfterType DEF InsertUserCouponUnnoticed
<1>13. CASE Unlock(w)
  BY <1>13, <1>s, AfterType DEF Unlock, Released, Holder
<1>14. CASE Abort(w)
  BY <1>14, <1>s, AfterType DEF Abort, Released, Holder
<1>15. CASE InsertCoupon(w)
  BY <1>15, <1>s, EffectType, AfterType DEF InsertCoupon, DoInsertCoupon
<1>16. CASE FillCode(w)
  BY <1>16, <1>s, EffectType, AfterType DEF FillCode, DoFillCode
<1>17. CASE IncrDrawn(w)
  BY <1>17, <1>s, EffectType, AfterType DEF IncrDrawn, DoIncrDrawn
<1>18. CASE SetUser(w)
  BY <1>18, <1>s, EffectType, AfterType DEF SetUser, DoSetUser
<1>19. CASE InsertUserCoupon(w)
  BY <1>19, <1>s, EffectType, AfterType DEF InsertUserCoupon, DoInsertUserCoupon
<1>20. CASE WriteFails(w)
  <2>1. pc' \in [Workers -> Steps]
    <3>1. Goto(w, "abort")
      BY <1>20 DEF WriteFails
    <3>2. QED
      BY <3>1, <1>s
  <2>2. /\ table' \in BOOLEAN /\ coupon' \in Seq(Row) /\ drawn_count' \in Nat
        /\ userCoupons' \in Seq(UserCoupon) /\ code' \in [Workers -> Nat]
    BY <1>20, EffectDb DEF WriteFails
  <2>3. QED
    BY <1>20, <2>1, <2>2, SceneStep DEF WriteFails
<1>21. CASE WriteRepeated(w)
  <2>1. UserCouponRow(w) \in UserCoupon
    BY DEF UserCouponRow, UserCoupon
  <2>2. Append(Append(userCoupons, UserCouponRow(w)), UserCouponRow(w)) \in Seq(UserCoupon)
    BY <2>1
  <2>3. CASE DoIncrDrawn(2) /\ Goto(w, After["incrDrawn"])
    <3>1. drawn_count' \in Nat
      BY <2>3, EffectType
    <3>2. pc' \in [Workers -> Steps]
      BY <2>3, AfterType
    <3>3. QED
      BY <1>21, <2>3, <3>1, <3>2, SceneStep DEF WriteRepeated, DoIncrDrawn
  <2>4. CASE /\ userCoupons' = Append(Append(userCoupons, UserCouponRow(w)), UserCouponRow(w))
             /\ Goto(w, "unlock")
             /\ UNCHANGED <<table, coupon, drawn_count, code>>
    <3>1. pc' \in [Workers -> Steps]
      BY <2>4, <1>s
    <3>2. QED
      BY <1>21, <2>2, <2>4, <3>1, SceneStep DEF WriteRepeated
  <2>5. QED
    BY <1>21, <2>3, <2>4 DEF WriteRepeated
<1>22. CASE WriteList(w)
  <2>1. list' \in [Users -> Seq(Nat)]
    <3>1. Push(seen[w], code[w]) \in Seq(Nat)
      BY PushType
    <3>2. QED
      BY <1>22, <3>1 DEF WriteList
  <2>2. pc' \in [Workers -> Steps]
    BY <1>22, <1>s DEF WriteList
  <2>3. seen' \in [Workers -> Seq(Nat)] /\ faults' \in Nat
    BY <1>22 DEF WriteList
  <2>4. QED
    BY <1>22, <2>1, <2>2, <2>3 DEF WriteList
<1>23. CASE WriteCache(w)
  <2>1. cache' \in [Users -> SUBSET Nat]
    <3>1. user[w] \in Users /\ cache[user[w]] \cup {code[w]} \in SUBSET Nat
      OBVIOUS
    <3>2. CASE cache' = [cache EXCEPT ![user[w]] = @ \cup {code[w]}]
      BY <3>1, <3>2
    <3>3. QED
      BY <1>23, <3>2 DEF WriteCache
  <2>2. pc' \in [Workers -> Steps]
    BY <1>23, <1>s DEF WriteCache
  <2>3. answer' \in [Workers -> Answers] /\ faults' \in Nat
    BY <1>23 DEF WriteCache
  <2>4. QED
    BY <1>23, <2>1, <2>2, <2>3 DEF WriteCache
<1>24. QED
  BY <1>1, <1>2, <1>3, <1>4, <1>5, <1>6, <1>7, <1>8, <1>9, <1>10, <1>11, <1>12, <1>13, <1>14, <1>15, <1>16, <1>17, <1>18, <1>19, <1>20, <1>21, <1>22, <1>23 DEF Step

\* TypeOK is inductive.
LEMMA NextType == TypeOK /\ [Next]_vars => TypeOK'
<1> SUFFICES ASSUME TypeOK, [Next]_vars PROVE TypeOK'
  OBVIOUS
<1>1. CASE \E w \in Workers : Step(w)
  BY <1>1, StepType
<1>2. ASSUME NEW w \in Workers, NEW u \in Users, Begin(w, u)
      PROVE  TypeOK'
  <2>1. "countReal" \in Steps
    BY DEF Steps
  <2>2. code' \in [Workers -> Nat]
    <3>1. PICK id \in (IF scene = "issue" THEN {NoCode} ELSE DOMAIN coupon) :
            code' = [code EXCEPT ![w] = id]
      BY <1>2 DEF Begin
    <3>2. id \in Nat
      BY <3>1 DEF NoCode, TypeOK
    <3>3. QED
      BY <3>1, <3>2 DEF TypeOK
  <2>3. QED
    BY <1>2, <2>1, <2>2 DEF Begin, TypeOK, Goto, Answer, NoFault, db, redis, Answers
<1>3. CASE AdminCreateTable
  BY <1>3 DEF AdminCreateTable, TypeOK, redis, local
<1>4. ASSUME NEW u \in Users, LockExpires(u)
      PROVE  TypeOK'
  BY <1>4 DEF LockExpires, TypeOK, db, local, Holder
<1>5. CASE Crash
  BY <1>5 DEF Crash, TypeOK, Fault, db, Holder, Steps, Answers, NoCode
<1>6. CASE UNCHANGED vars
  BY <1>6 DEF vars, db, redis, local, TypeOK
<1>7. QED
  BY <1>1, <1>2, <1>3, <1>4, <1>5, <1>6 DEF Next

\* The initial states have the right types.
LEMMA InitType == Init => TypeOK
<1> SUFFICES ASSUME Init PROVE TypeOK
  OBVIOUS
<1>1. coupon \in Seq(Row)
  <2>1. \A n \in Nat : [id \in 1..n |-> [user |-> NoUser, coded |-> TRUE]] \in Seq(Row)
    BY DEF Row
  <2>2. (IF scene = "issue" THEN 0 ELSE Exported) \in Nat
    BY DrawAssumption
  <2>3. QED
    BY <2>1, <2>2 DEF Init
<1>2. table \in BOOLEAN
  BY DEF Init
<1>3. /\ userCoupons \in Seq(UserCoupon)
      /\ list \in [Users -> Seq(Nat)]
      /\ seen \in [Workers -> Seq(Nat)]
  BY DEF Init
<1>4. pc \in [Workers -> Steps] /\ answer \in [Workers -> Answers]
  BY DEF Init, Steps, Answers
<1>5. QED
  BY <1>1, <1>2, <1>3, <1>4 DEF Init, TypeOK, Holder, NoCode

\* Every reachable state of drawCoupon has the types TypeOK gives it.
THEOREM TypeCorrect == Spec => []TypeOK
  BY InitType, NextType, PTL DEF Spec

-----------------------------------------------------------------------------
(***************************************************************************)
(* The scenes keep to their own statements.                                *)
(***************************************************************************)

LEMMA PathStep == TypeOK /\ PathOK /\ [Next]_vars => PathOK'
<1> SUFFICES ASSUME TypeOK, PathOK, [Next]_vars PROVE PathOK'
  OBVIOUS
<1> DEFINE Off == IF scene = "issue" THEN {"findCoupon", "setUser"}
                                     ELSE {"insertCoupon", "fillCode"}
<1>a. /\ After["checkUser"] \notin Off /\ After["lock"] \notin Off
      /\ After["incrDrawn"] \notin Off
  BY DrawAssumption DEF After, TypeOK
<1>r. scene' = scene
  BY SceneRigid
<1>1. ASSUME NEW w \in Workers, Step(w)
      PROVE  PathOK'
  <2>1. ASSUME NEW x, Goto(w, x), x \notin Off
        PROVE  PathOK'
    BY <1>r, <2>1 DEF PathOK, Goto, TypeOK
  <2>2. CASE BeginSoldOut(w)
    BY <1>r, <2>2 DEF BeginSoldOut, PathOK
  <2>3. CASE \/ CountReal(w) \/ TableMissing(w) \/ CheckList(w) \/ ListUnread(w)
             \/ Refuse(w) \/ InsertConflict(w) \/ SetUserUnchanged(w)
             \/ InsertUserCoupon(w) \/ SetUser(w) \/ WriteFails(w)
             \/ InsertUserCouponUnnoticed(w) \/ Unlock(w) \/ Abort(w)
             \/ WriteList(w) \/ WriteCache(w)
    <3>1. \E x \in {"checkList", "idle", "checkUser", "abort", "insertUserCoupon",
                    "unlock", "writeList", "writeCache"} : Goto(w, x)
      BY <2>3 DEF CountReal, TableMissing, CheckList, ListUnread, Refuse, InsertConflict,
                  SetUserUnchanged, InsertUserCoupon, SetUser, WriteFails,
                  InsertUserCouponUnnoticed, Unlock, Abort, WriteList, WriteCache
    <3>2. QED
      BY <2>1, <3>1
  <2>4. CASE CheckUser(w) \/ AcquireLock(w) \/ IncrDrawn(w)
    <3>1. \/ Goto(w, After["checkUser"]) \/ Goto(w, After["lock"])
          \/ Goto(w, After["incrDrawn"])
      BY <2>4 DEF CheckUser, AcquireLock, IncrDrawn
    <3>2. QED
      BY <1>a, <2>1, <3>1
  <2>5. CASE FindCoupon(w)
    BY <2>1, <2>5 DEF FindCoupon
  <2>6. CASE InsertCoupon(w)
    <3>1. scene = "issue"
      BY <2>6 DEF InsertCoupon, At, PathOK
    <3>2. Goto(w, "fillCode")
      BY <2>6 DEF InsertCoupon
    <3>3. QED
      BY <2>1, <3>1, <3>2
  <2>7. CASE FillCode(w)
    BY <2>1, <2>7 DEF FillCode
  <2>8. CASE WriteRepeated(w)
    <3>1. Goto(w, After["incrDrawn"]) \/ Goto(w, "unlock")
      BY <2>8 DEF WriteRepeated
    <3>2. QED
      BY <1>a, <2>1, <3>1
  <2>9. QED
    BY <1>1, <2>2, <2>3, <2>4, <2>5, <2>6, <2>7, <2>8 DEF Step
<1>2. ASSUME NEW w \in Workers, NEW u \in Users, Begin(w, u)
      PROVE  PathOK'
  BY <1>r, <1>2 DEF Begin, Goto, PathOK, TypeOK
<1>3. CASE AdminCreateTable \/ (\E u \in Users : LockExpires(u)) \/ UNCHANGED vars
  BY <1>r, <1>3 DEF AdminCreateTable, LockExpires, vars, PathOK
<1>4. CASE Crash
  BY <1>4 DEF Crash, PathOK
<1>5. QED
  BY <1>1, <1>2, <1>3, <1>4 DEF Next

LEMMA PathInit == Init => PathOK
  BY DEF Init, PathOK

-----------------------------------------------------------------------------
(***************************************************************************)
(* The group limit.                                                        *)
(***************************************************************************)

\* The set that Issued counts is finite.
LEMMA DrawnFinite ==
  ASSUME TypeOK
  PROVE  /\ Drawn \subseteq 1..Len(coupon)
         /\ IsFiniteSet(Drawn)
         /\ Issued = Cardinality(Drawn)
         /\ Issued \in Nat
<1>1. DOMAIN coupon = 1..Len(coupon) /\ Len(coupon) \in Nat
  BY DEF TypeOK
<1>2. IsFiniteSet(1..Len(coupon))
  BY <1>1, FS_Interval
<1>3. Drawn \in SUBSET (1..Len(coupon))
  BY <1>1 DEF Drawn
<1>4. IsFiniteSet(Drawn)
  BY <1>2, <1>3, FS_Subset
<1>5. Issued = Cardinality(Drawn)
  BY DEF Issued, Drawn
<1>6. QED
  BY <1>3, <1>4, <1>5, FS_CardinalityType

LEMMA ClaimingFinite ==
  /\ IsFiniteSet(Claiming) /\ Cardinality(Claiming) \in Nat
  /\ Cardinality(Claiming) <= Cardinality(Workers)
  /\ Cardinality(Workers) \in Nat
<1>1. Claiming \in SUBSET Workers /\ IsFiniteSet(Workers)
  BY DrawAssumption DEF Claiming
<1>2. QED
  BY <1>1, FS_Subset, FS_CardinalityType

\* What a step of one worker does to the set of claims.
LEMMA ClaimMove ==
  ASSUME TypeOK, NEW w \in Workers, NEW x, Goto(w, x), scene' = scene
  PROVE  /\ x \in ClaimSteps => Claiming' = Claiming \cup {w}
         /\ x \notin ClaimSteps => Claiming' = Claiming \ {w}
  BY DEF TypeOK, Goto, Claiming, ClaimSteps

\* A step that issues nothing and makes no new claim keeps the sum.
LEMMA ClaimKeep ==
  ASSUME TypeOK, TypeOK', IssueClaims, Drawn' \subseteq Drawn, Claiming' \subseteq Claiming
  PROVE  IssueClaims'
<1>1. Cardinality(Claiming') <= Cardinality(Claiming) /\ Cardinality(Claiming') \in Nat
  BY ClaimingFinite, FS_Subset, FS_CardinalityType
<1>2. Cardinality(Drawn') <= Cardinality(Drawn) /\ Cardinality(Drawn') \in Nat
  BY DrawnFinite, FS_Subset, FS_CardinalityType
<1>3. Issued' = Cardinality(Drawn')
  BY DEF Issued, Drawn
<1>4. QED
  BY <1>1, <1>2, <1>3, DrawnFinite, ClaimingFinite, DrawAssumption DEF IssueClaims, Slack

\* A step that gives out one coupon uses up the claim of its worker.
LEMMA ClaimUse ==
  ASSUME TypeOK, IssueClaims, NEW w \in Claiming, NEW id,
         Drawn' \subseteq Drawn \cup {id}, Claiming' = Claiming \ {w}
  PROVE  IssueClaims'
<1>1. Cardinality(Claiming') = Cardinality(Claiming) - 1
  BY ClaimingFinite, FS_RemoveElement
<1>2. IsFiniteSet(Drawn) /\ Cardinality(Drawn) \in Nat
  BY DrawnFinite
<1>3. /\ IsFiniteSet(Drawn \cup {id})
      /\ Cardinality(Drawn \cup {id}) =
           IF id \in Drawn THEN Cardinality(Drawn) ELSE Cardinality(Drawn) + 1
  BY <1>2, FS_AddElement
<1>4. /\ Cardinality(Drawn') <= Cardinality(Drawn \cup {id})
      /\ Cardinality(Drawn') \in Nat /\ Cardinality(Drawn \cup {id}) \in Nat
  BY <1>3, FS_Subset, FS_CardinalityType
<1>5. Cardinality(Drawn') <= Cardinality(Drawn) + 1
  BY <1>2, <1>3, <1>4
<1>6. Issued' = Cardinality(Drawn')
  BY DEF Issued, Drawn
<1>7. QED
  BY <1>1, <1>2, <1>4, <1>5, <1>6, DrawnFinite, ClaimingFinite, DrawAssumption
  DEF IssueClaims, Slack

\* What the write statements do to the set of drawn coupons.
LEMMA EffectDrawn ==
  ASSUME TypeOK, NEW w \in Workers
  PROVE  /\ DoInsertCoupon(w) => Drawn' \subseteq Drawn \cup {Len(coupon) + 1}
         /\ DoFillCode(w) => Drawn' = Drawn
         /\ DoSetUser(w) => Drawn' \subseteq Drawn \cup {code[w]}
         /\ UNCHANGED coupon => Drawn' = Drawn
<1>1. coupon \in Seq(Row) /\ user[w] \in Users /\ code[w] \in Nat
  BY DEF TypeOK
<1>2. ASSUME DoInsertCoupon(w)
      PROVE  Drawn' \subseteq Drawn \cup {Len(coupon) + 1}
  <2>1. [user |-> user[w], coded |-> FALSE] \in Row
    BY <1>1 DEF Row
  <2>2. QED
    BY <1>1, <1>2, <2>1, AppendRow DEF DoInsertCoupon, Drawn
<1>3. ASSUME DoFillCode(w)
      PROVE  Drawn' = Drawn
  BY <1>1, <1>3, WithCodeType DEF DoFillCode, Drawn
<1>4. ASSUME DoSetUser(w)
      PROVE  Drawn' \subseteq Drawn \cup {code[w]}
  BY <1>1, <1>4, WithUserType DEF DoSetUser, Drawn
<1>5. UNCHANGED coupon => Drawn' = Drawn
  BY DEF Drawn
<1>6. QED
  BY <1>2, <1>3, <1>4, <1>5

\* A step of one worker keeps the sum of claims and issued coupons in bounds.
LEMMA ClaimStep ==
  ASSUME TypeOK, TypeOK', PathOK, IssueClaims, NEW w \in Workers, Step(w)
  PROVE  IssueClaims'
<1>r. scene' = scene
  BY SceneStep
<1>a. /\ UNCHANGED coupon => Drawn' = Drawn
      /\ DoFillCode(w) => Drawn' = Drawn
  BY EffectDrawn
<1>b. ASSUME NEW x, Goto(w, x), x \in ClaimSteps => w \in Claiming, Drawn' = Drawn
      PROVE  IssueClaims'
  <2>1. Claiming' \subseteq Claiming
    BY <1>b, <1>r, ClaimMove
  <2>2. QED
    BY <1>b, <2>1, ClaimKeep
<1>c. ASSUME w \in Claiming, NEW id, Drawn' \subseteq Drawn \cup {id},
             NEW x, x \notin ClaimSteps, Goto(w, x)
      PROVE  IssueClaims'
  BY <1>c, <1>r, ClaimMove, ClaimUse
<1>d. ASSUME NEW x, x \in {"idle", "unlock", "abort", "writeList", "writeCache",
                          "fillCode", "insertUserCoupon"}
      PROVE  x \notin ClaimSteps
  BY <1>d DEF ClaimSteps
<1>e. /\ pc[w] \in {"checkList", "checkUser", "findCoupon", "lock", "insertCoupon", "setUser"}
           => w \in Claiming
      /\ scene = "export" /\ pc[w] = "incrDrawn" => w \in Claiming
  BY DEF Claiming, ClaimSteps
<1>1. CASE BeginSoldOut(w)
  <2>1. Drawn' = Drawn /\ Claiming' = Claiming
    BY <1>1, <1>a, <1>r DEF BeginSoldOut, db, Claiming, ClaimSteps
  <2>2. QED
    BY <2>1, ClaimKeep
<1>2. CASE CountReal(w)
  <2>1. Issued <= max_count - 1
    BY <1>2, DrawnFinite, DrawAssumption DEF CountReal, SoldOut, NoneLeft
  <2>2. Drawn' = Drawn
    BY <1>2, <1>a DEF CountReal, db
  <2>3. Issued' = Issued /\ Issued \in Nat
    BY <2>2, DrawnFinite DEF Issued, Drawn
  <2>4. Cardinality(Claiming') <= Cardinality(Workers) /\ Cardinality(Claiming') \in Nat
    BY ClaimingFinite, FS_Subset, FS_CardinalityType, DrawAssumption DEF Claiming
  <2>5. QED
    BY <2>1, <2>3, <2>4, ClaimingFinite, DrawAssumption DEF IssueClaims, Slack
<1>3. CASE \/ TableMissing(w) \/ Refuse(w) \/ InsertConflict(w) \/ SetUserUnchanged(w)
           \/ Unlock(w) \/ Abort(w) \/ WriteList(w) \/ WriteCache(w)
           \/ InsertUserCoupon(w) \/ InsertUserCouponUnnoticed(w)
  <2>1. PICK x \in {"idle", "abort", "unlock", "writeList", "writeCache"} : Goto(w, x)
    BY <1>3 DEF TableMissing, Refuse, InsertConflict, SetUserUnchanged, Unlock, Abort,
                WriteList, WriteCache, InsertUserCoupon, InsertUserCouponUnnoticed
  <2>2. UNCHANGED coupon
    BY <1>3 DEF TableMissing, Refuse, InsertConflict, SetUserUnchanged, Unlock, Abort,
                WriteList, WriteCache, InsertUserCoupon, DoInsertUserCoupon,
                InsertUserCouponUnnoticed, db
  <2>3. QED
    BY <1>a, <1>b, <1>d, <2>1, <2>2
<1>4. CASE \/ CheckList(w) \/ ListUnread(w) \/ CheckUser(w) \/ FindCoupon(w)
           \/ AcquireLock(w)
  <2>1. w \in Claiming
    BY <1>4, <1>e DEF CheckList, ListUnread, CheckUser, FindCoupon, AcquireLock, At
  <2>2. UNCHANGED coupon
    BY <1>4 DEF CheckList, ListUnread, CheckUser, FindCoupon, AcquireLock, db
  <2>3. \E x : Goto(w, x)
    BY <1>4 DEF CheckList, ListUnread, CheckUser, FindCoupon, AcquireLock
  <2>4. QED
    BY <1>a, <1>b, <2>1, <2>2, <2>3
<1>5. CASE InsertCoupon(w)
  <2>1. w \in Claiming
    BY <1>5, <1>e DEF InsertCoupon, At
  <2>2. Drawn' \subseteq Drawn \cup {Len(coupon) + 1}
    BY <1>5, EffectDrawn DEF InsertCoupon
  <2>3. Goto(w, "fillCode")
    BY <1>5 DEF InsertCoupon
  <2>4. QED
    BY <1>c, <1>d, <2>1, <2>2, <2>3
<1>6. CASE FillCode(w)
  <2>1. Drawn' = Drawn /\ Goto(w, "incrDrawn") /\ scene = "issue"
    BY <1>6, <1>a, DrawAssumption DEF FillCode, At, PathOK, TypeOK
  <2>2. "incrDrawn" \notin ClaimSteps
    BY <2>1 DEF ClaimSteps
  <2>3. QED
    BY <1>b, <2>1, <2>2
<1>7. CASE IncrDrawn(w) \/ (At(w, "incrDrawn") /\ WriteRepeated(w))
  <2>1. UNCHANGED coupon /\ At(w, "incrDrawn")
    BY <1>7 DEF IncrDrawn, WriteRepeated, DoIncrDrawn, At
  <2>2. Goto(w, After["incrDrawn"])
    BY <1>7, <2>1 DEF IncrDrawn, WriteRepeated, At
  <2>3. After["incrDrawn"] \in ClaimSteps => w \in Claiming
    BY <1>d, <1>e, <2>1, DrawAssumption DEF After, At, TypeOK
  <2>4. QED
    BY <1>a, <1>b, <2>1, <2>2, <2>3
<1>8. CASE WriteRepeated(w) /\ ~At(w, "incrDrawn")
  <2>1. UNCHANGED coupon /\ Goto(w, "unlock")
    BY <1>8 DEF WriteRepeated
  <2>2. QED
    BY <1>a, <1>b, <1>d, <2>1
<1>9. CASE SetUser(w)
  <2>1. w \in Claiming
    BY <1>9, <1>e DEF SetUser, At
  <2>2. Drawn' \subseteq Drawn \cup {code[w]} /\ Goto(w, "insertUserCoupon")
    BY <1>9, EffectDrawn DEF SetUser
  <2>3. QED
    BY <1>c, <1>d, <2>1, <2>2
<1>10. CASE WriteFails(w)
  <2>1. Goto(w, "abort")
    BY <1>10 DEF WriteFails
  <2>2. CASE UNCHANGED coupon \/ DoFillCode(w)
    BY <1>a, <1>b, <1>d, <2>1, <2>2
  <2>3. CASE At(w, "insertCoupon") /\ DoInsertCoupon(w)
    <3>1. w \in Claiming
      BY <1>e, <2>3 DEF At
    <3>2. Drawn' \subseteq Drawn \cup {Len(coupon) + 1}
      BY <2>3, EffectDrawn
    <3>3. QED
      BY <1>c, <1>d, <2>1, <3>1, <3>2
  <2>4. CASE At(w, "setUser") /\ DoSetUser(w)
    <3>1. w \in Claiming
      BY <1>e, <2>4 DEF At
    <3>2. Drawn' \subseteq Drawn \cup {code[w]}
      BY <2>4, EffectDrawn
    <3>3. QED
      BY <1>c, <1>d, <2>1, <3>1, <3>2
  <2>5. QED
    BY <1>10, <2>2, <2>3, <2>4
    DEF WriteFails, Effect, DoIncrDrawn, DoInsertUserCoupon, db
<1>11. QED
  BY <1>1, <1>2, <1>3, <1>4, <1>5, <1>6, <1>7, <1>8, <1>9, <1>10 DEF Step

\* The environment and the arrival of a request make no claim.
LEMMA ClaimNext == TypeOK /\ TypeOK' /\ PathOK /\ IssueClaims /\ [Next]_vars => IssueClaims'
<1> SUFFICES ASSUME TypeOK, TypeOK', PathOK, IssueClaims, [Next]_vars PROVE IssueClaims'
  OBVIOUS
<1>r. scene' = scene
  BY SceneRigid
<1>1. CASE \E w \in Workers : Step(w)
  BY <1>1, ClaimStep
<1>2. ASSUME NEW w \in Workers, NEW u \in Users, Begin(w, u)
      PROVE  IssueClaims'
  <2>1. Claiming' \subseteq Claiming
    <3>1. Goto(w, "countReal") /\ "countReal" \notin ClaimSteps
      BY <1>2 DEF Begin, ClaimSteps
    <3>2. QED
      BY <3>1, <1>r, ClaimMove
  <2>2. Drawn' = Drawn
    BY <1>2 DEF Begin, db, Drawn
  <2>3. QED
    BY <2>1, <2>2, ClaimKeep
<1>3. CASE AdminCreateTable \/ (\E u \in Users : LockExpires(u)) \/ UNCHANGED vars
  <2>1. Drawn' = Drawn /\ Claiming' = Claiming
    BY <1>3, <1>r DEF AdminCreateTable, LockExpires, vars, db, Drawn, Claiming, ClaimSteps
  <2>2. QED
    BY <2>1, ClaimKeep
<1>4. CASE Crash
  <2>1. Drawn' = Drawn /\ Claiming' = {}
    BY <1>4 DEF Crash, db, Drawn, Claiming, ClaimSteps
  <2>2. QED
    BY <2>1, ClaimKeep
<1>5. QED
  BY <1>1, <1>2, <1>3, <1>4 DEF Next

\* Before the first draw no coupon has a user.
LEMMA ClaimInit == Init => IssueClaims
<1> SUFFICES ASSUME Init PROVE IssueClaims
  OBVIOUS
<1>1. Drawn = {} /\ Claiming = {}
  BY DEF Init, Drawn, Claiming, ClaimSteps
<1>2. Issued = 0 /\ Cardinality(Claiming) = 0
  BY <1>1, FS_EmptySet DEF Issued, Drawn
<1>3. Cardinality(Workers) \in Nat /\ Cardinality(Workers) # 0
  BY DrawAssumption, FS_CardinalityType, FS_EmptySet
<1>4. QED
  BY <1>2, <1>3, DrawAssumption DEF IssueClaims, Slack

\* The workers that have passed the count test and the coupons issued never
\* exceed the limit by more than one for every other worker.
THEOREM ClaimsHold == Spec => []IssueClaims
<1>1. Init => TypeOK /\ PathOK /\ IssueClaims
  BY InitType, PathInit, ClaimInit
<1>2. TypeOK /\ PathOK /\ IssueClaims /\ [Next]_vars => (TypeOK /\ PathOK /\ IssueClaims)'
  BY NextType, PathStep, ClaimNext
<1>3. QED
  BY <1>1, <1>2, PTL DEF Spec

\* However many workers race and whatever fails, a group issues at most
\* max_count coupons and one for every other worker thread.
THEOREM OverIssue == Spec => []OverIssueBounded
<1>1. TypeOK /\ IssueClaims => OverIssueBounded
  BY DrawnFinite, ClaimingFinite, DrawAssumption DEF IssueClaims, OverIssueBounded, Slack
<1>2. QED
  BY <1>1, TypeCorrect, ClaimsHold, PTL

-----------------------------------------------------------------------------
(***************************************************************************)
(* The limit of one user.                                                  *)
(***************************************************************************)

\* The rows of a user, and the claims on them.
Held(u) == {k \in DOMAIN userCoupons : userCoupons[k].user = u}
GrantSum(u) == UserCouponsCount(u) + Cardinality(Granting(u))

LEMMA GrantFinite ==
  ASSUME TypeOK, NEW u
  PROVE  /\ IsFiniteSet(Held(u)) /\ Cardinality(Held(u)) \in Nat
         /\ UserCouponsCount(u) = Cardinality(Held(u))
         /\ IsFiniteSet(Granting(u)) /\ Cardinality(Granting(u)) \in Nat
         /\ Cardinality(Granting(u)) <= Cardinality(Workers)
         /\ Cardinality(Workers) \in Nat
<1>1. DOMAIN userCoupons = 1..Len(userCoupons) /\ Len(userCoupons) \in Nat
  BY DEF TypeOK
<1>2. IsFiniteSet(1..Len(userCoupons))
  BY <1>1, FS_Interval
<1>3. Held(u) \in SUBSET (1..Len(userCoupons))
  BY <1>1 DEF Held
<1>4. IsFiniteSet(Held(u)) /\ Cardinality(Held(u)) \in Nat
  BY <1>2, <1>3, FS_Subset, FS_CardinalityType
<1>5. UserCouponsCount(u) = Cardinality(Held(u))
  BY DEF UserCouponsCount, Held
<1>6. Granting(u) \in SUBSET Workers /\ IsFiniteSet(Workers)
  BY DrawAssumption DEF Granting
<1>7. QED
  BY <1>4, <1>5, <1>6, FS_Subset, FS_CardinalityType

\* Adding one row to a table adds at most that row to what a user holds.
LEMMA GrantAppend ==
  ASSUME NEW s \in Seq(UserCoupon), NEW r \in UserCoupon, NEW u
  PROVE  LET rows(t) == {k \in DOMAIN t : t[k].user = u}
         IN  /\ rows(Append(s, r)) \subseteq rows(s) \cup {Len(s) + 1}
             /\ r.user # u => rows(Append(s, r)) = rows(s)
  BY AppendRow

\* The limit of the group's scene is a number.
LEMMA LimitType == TypeOK => can_draw_count[scene] \in Nat
  BY DrawAssumption DEF TypeOK

\* A step that neither records a coupon of u nor claims one keeps the sum.
LEMMA GrantKeep ==
  ASSUME TypeOK, NEW u, GrantSum(u) <= can_draw_count[scene] + Slack + faults,
         TypeOK', scene' = scene, Held(u)' \subseteq Held(u), Granting(u)' \subseteq Granting(u),
         faults' >= faults
  PROVE  GrantSum(u)' <= can_draw_count[scene]' + Slack + faults'
<1>1. Cardinality(Granting(u)') <= Cardinality(Granting(u)) /\ Cardinality(Granting(u)') \in Nat
  BY GrantFinite, FS_Subset, FS_CardinalityType
<1>2. Cardinality(Held(u)') <= Cardinality(Held(u)) /\ Cardinality(Held(u)') \in Nat
  BY GrantFinite, FS_Subset, FS_CardinalityType
<1>3. UserCouponsCount(u)' = Cardinality(Held(u)')
  BY DEF UserCouponsCount, Held
<1>4. faults \in Nat /\ faults' \in Nat
  BY DEF TypeOK
<1>5. QED
  BY <1>1, <1>2, <1>3, <1>4, GrantFinite, LimitType, DrawAssumption DEF GrantSum, Slack

\* Recording a coupon of u uses up the claim of its worker; a second row comes
\* with a failure.
LEMMA GrantUse ==
  ASSUME TypeOK, NEW u, GrantSum(u) <= can_draw_count[scene] + Slack + faults,
         TypeOK', scene' = scene, NEW w \in Granting(u), NEW j, NEW k,
         Held(u)' \subseteq (Held(u) \cup {j}) \cup {k}, Granting(u)' = Granting(u) \ {w},
         faults' >= IF j = k THEN faults ELSE faults + 1
  PROVE  GrantSum(u)' <= can_draw_count[scene]' + Slack + faults'
<1>1. Cardinality(Granting(u)') = Cardinality(Granting(u)) - 1
  BY GrantFinite, FS_RemoveElement
<1>2. IsFiniteSet(Held(u)) /\ Cardinality(Held(u)) \in Nat
  BY GrantFinite
<1>3. /\ IsFiniteSet(Held(u) \cup {j})
      /\ Cardinality(Held(u) \cup {j}) =
           IF j \in Held(u) THEN Cardinality(Held(u)) ELSE Cardinality(Held(u)) + 1
  BY <1>2, FS_AddElement
<1>4. /\ IsFiniteSet((Held(u) \cup {j}) \cup {k})
      /\ Cardinality((Held(u) \cup {j}) \cup {k}) =
           IF k \in Held(u) \cup {j} THEN Cardinality(Held(u) \cup {j})
                                     ELSE Cardinality(Held(u) \cup {j}) + 1
  BY <1>3, FS_AddElement
<1>5. /\ Cardinality(Held(u)') <= Cardinality((Held(u) \cup {j}) \cup {k})
      /\ Cardinality(Held(u)') \in Nat
  BY <1>4, FS_Subset, FS_CardinalityType
<1>6. Cardinality(Held(u)') <= Cardinality(Held(u)) + (IF j = k THEN 1 ELSE 2)
  <2>1. CASE j = k
    BY <1>2, <1>3, <1>4, <1>5, <2>1
  <2>2. CASE j # k
    BY <1>2, <1>3, <1>4, <1>5, <2>2
  <2>3. QED
    BY <2>1, <2>2
<1>7. UserCouponsCount(u)' = Cardinality(Held(u)')
  BY DEF UserCouponsCount, Held
<1>8. faults \in Nat /\ faults' \in Nat
  BY DEF TypeOK
<1>9. QED
  BY <1>1, <1>2, <1>5, <1>6, <1>7, <1>8, GrantFinite, LimitType,
     DrawAssumption DEF GrantSum, Slack

\* What a step of one worker does to the claims on a user's coupons.
LEMMA GrantMove ==
  ASSUME TypeOK, NEW u, NEW w \in Workers, NEW x, Goto(w, x), UNCHANGED user
  PROVE  /\ x \notin GrantSteps => Granting(u)' = Granting(u) \ {w}
         /\ pc[w] \in GrantSteps => Granting(u)' \subseteq Granting(u)
         /\ user[w] # u => Granting(u)' = Granting(u)
  BY DEF TypeOK, Goto, Granting, GrantSteps

\* What recording a coupon does to the rows a user holds.
LEMMA GrantRecord ==
  ASSUME TypeOK, NEW u, NEW w \in Workers
  PROVE  LET k == Len(userCoupons) + 1
             r == UserCouponRow(w)
         IN  /\ userCoupons' = Append(userCoupons, r) =>
                  /\ Held(u)' \subseteq (Held(u) \cup {k}) \cup {k}
                  /\ user[w] # u => Held(u)' = Held(u)
             /\ userCoupons' = Append(Append(userCoupons, r), r) =>
                  /\ Held(u)' \subseteq (Held(u) \cup {k}) \cup {k + 1}
                  /\ user[w] # u => Held(u)' = Held(u)
<1> DEFINE k == Len(userCoupons) + 1
           r == UserCouponRow(w)
           once == Append(userCoupons, r)
           rows(t) == {i \in DOMAIN t : t[i].user = u}
<1>1. r \in UserCoupon /\ r.user = user[w] /\ userCoupons \in Seq(UserCoupon)
  BY DEF TypeOK, UserCouponRow, UserCoupon
<1>2. rows(once) \subseteq rows(userCoupons) \cup {k} /\ (user[w] # u => rows(once) = rows(userCoupons))
  BY <1>1, GrantAppend
<1>3. once \in Seq(UserCoupon) /\ Len(once) = k
  BY <1>1
<1>4. /\ rows(Append(once, r)) \subseteq rows(once) \cup {k + 1}
      /\ user[w] # u => rows(Append(once, r)) = rows(once)
  <2> HIDE DEF once, r, k
  <2>1. /\ rows(Append(once, r)) \subseteq rows(once) \cup {Len(once) + 1}
        /\ r.user # u => rows(Append(once, r)) = rows(once)
    BY <1>1, <1>3, GrantAppend
  <2>2. QED
    BY <1>1, <1>3, <2>1
<1>5. Held(u) = rows(userCoupons) /\ Held(u)' = {i \in DOMAIN userCoupons' : userCoupons'[i].user = u}
  BY DEF Held
<1>6. QED
  BY <1>2, <1>4, <1>5

\* A step of one worker keeps the sum of claims and coupons of a user in bounds.
LEMMA GrantStep ==
  ASSUME TypeOK, TypeOK', NEW u \in Users,
         GrantSum(u) <= can_draw_count[scene] + Slack + faults,
         NEW w \in Workers, Step(w)
  PROVE  GrantSum(u)' <= can_draw_count[scene]' + Slack + faults'
<1>s. scene' = scene
  BY SceneStep
<1> USE <1>s
<1>a. /\ faults \in Nat /\ faults' \in Nat
      /\ NoFault => faults' >= faults
      /\ Fault => faults' >= faults + 1 /\ faults' >= faults
  BY DEF TypeOK, NoFault, Fault
<1>b. UNCHANGED userCoupons => Held(u)' = Held(u)
  BY DEF Held
<1>c. ASSUME NEW x, Goto(w, x), UNCHANGED <<user, userCoupons>>, faults' >= faults,
             x \notin GrantSteps \/ pc[w] \in GrantSteps
      PROVE  GrantSum(u)' <= can_draw_count[scene]' + Slack + faults'
  BY <1>b, <1>c, GrantMove, GrantKeep
<1>d. ASSUME NEW x, x \in {"idle", "unlock", "abort", "writeList", "writeCache",
                          "countReal", "checkList", "checkUser"}
      PROVE  x \notin GrantSteps
  BY <1>d DEF GrantSteps
<1>e. pc[w] \in Writes \cup {"findCoupon", "lock"} => pc[w] \in GrantSteps
  BY DEF Writes, GrantSteps
<1>1. CASE BeginSoldOut(w)
  <2>1. Held(u)' = Held(u) /\ Granting(u)' = Granting(u)
    BY <1>1 DEF BeginSoldOut, db, local, Held, Granting
  <2>2. QED
    BY <1>1, <1>a, <2>1, GrantKeep DEF BeginSoldOut
<1>2. CASE \/ CountReal(w) \/ TableMissing(w) \/ CheckList(w) \/ ListUnread(w) \/ Refuse(w)
           \/ InsertConflict(w) \/ SetUserUnchanged(w) \/ InsertUserCouponUnnoticed(w)
           \/ Unlock(w) \/ Abort(w) \/ WriteList(w) \/ WriteCache(w)
  <2>1. PICK x \in {"idle", "unlock", "abort", "writeList", "writeCache", "checkList",
                    "checkUser"} : Goto(w, x)
    BY <1>2 DEF CountReal, TableMissing, CheckList, ListUnread, Refuse, InsertConflict,
                SetUserUnchanged, InsertUserCouponUnnoticed, Unlock, Abort, WriteList, WriteCache
  <2>2. UNCHANGED <<user, userCoupons>>
    BY <1>2 DEF CountReal, TableMissing, CheckList, ListUnread, Refuse, InsertConflict,
                SetUserUnchanged, InsertUserCouponUnnoticed, Unlock, Abort, WriteList,
                WriteCache, db, local
  <2>3. faults' >= faults
    BY <1>2, <1>a DEF CountReal, TableMissing, CheckList, ListUnread, Refuse, InsertConflict,
                SetUserUnchanged, InsertUserCouponUnnoticed, Unlock, Abort, WriteList,
                WriteCache, Quiet, NoFault, Fault
  <2>4. QED
    BY <1>c, <1>d, <2>1, <2>2, <2>3
<1>3. CASE CheckUser(w)
  <2>1. UNCHANGED <<user, userCoupons>> /\ faults' = faults /\ Goto(w, After["checkUser"])
    BY <1>3 DEF CheckUser, Quiet, NoFault, local
  <2>2. CASE user[w] # u
    BY <1>a, <1>b, <2>1, <2>2, GrantMove, GrantKeep
  <2>3. CASE user[w] = u
    <3>1. UserCouponsCount(u) <= can_draw_count[scene] - 1
      BY <1>3, <2>3, GrantFinite, LimitType DEF CheckUser, DrawnAllYouCan
    <3>2. UserCouponsCount(u)' = UserCouponsCount(u)
      BY <2>1 DEF UserCouponsCount
    <3>3. Cardinality(Granting(u)') \in Nat /\ Cardinality(Granting(u)') <= Cardinality(Workers)
      BY FS_Subset, FS_CardinalityType, DrawAssumption DEF Granting
    <3>4. QED
      BY <1>a, <2>1, <3>1, <3>2, <3>3, GrantFinite, LimitType,
         DrawAssumption DEF GrantSum, Slack
  <2>4. QED
    BY <2>2, <2>3
<1>4. CASE \/ FindCoupon(w) \/ AcquireLock(w) \/ InsertCoupon(w) \/ FillCode(w)
           \/ IncrDrawn(w) \/ SetUser(w)
  <2>1. pc[w] \in GrantSteps
    BY <1>4, <1>e DEF FindCoupon, AcquireLock, InsertCoupon, FillCode, IncrDrawn, SetUser,
                      At, Writes
  <2>2. \E x : Goto(w, x)
    BY <1>4 DEF FindCoupon, AcquireLock, InsertCoupon, FillCode, IncrDrawn, SetUser
  <2>3. UNCHANGED <<user, userCoupons>>
    BY <1>4 DEF FindCoupon, AcquireLock, InsertCoupon, FillCode, IncrDrawn, SetUser,
                DoInsertCoupon, DoFillCode, DoIncrDrawn, DoSetUser, db, local
  <2>4. faults' >= faults
    BY <1>4, <1>a DEF FindCoupon, AcquireLock, InsertCoupon, FillCode, IncrDrawn, SetUser, Quiet
  <2>5. QED
    BY <1>c, <2>1, <2>2, <2>3, <2>4
<1>5. ASSUME NEW x \in {"unlock", "abort"}, Goto(w, x), UNCHANGED user, faults' >= faults,
             At(w, "insertUserCoupon"), userCoupons' = Append(userCoupons, UserCouponRow(w))
      PROVE  GrantSum(u)' <= can_draw_count[scene]' + Slack + faults'
  <2>1. CASE user[w] # u
    BY <1>5, <2>1, GrantMove, GrantRecord, GrantKeep
  <2>2. CASE user[w] = u
    <3>1. w \in Granting(u) /\ Granting(u)' = Granting(u) \ {w}
      <4>1. w \in Granting(u)
        BY <1>5, <2>2 DEF Granting, GrantSteps, At
      <4>2. x \notin GrantSteps
        BY <1>5 DEF GrantSteps
      <4>3. QED
        BY <1>5, <4>1, <4>2, GrantMove
    <3>2. QED
      BY <1>5, <3>1, GrantRecord, GrantUse
  <2>3. QED
    BY <2>1, <2>2
<1>6. CASE InsertUserCoupon(w)
  BY <1>6, <1>5, <1>a DEF InsertUserCoupon, DoInsertUserCoupon, Quiet
<1>7. CASE WriteFails(w)
  <2>1. pc[w] \in GrantSteps /\ Goto(w, "abort") /\ UNCHANGED user /\ faults' >= faults
    BY <1>7, <1>e, <1>a DEF WriteFails
  <2>2. \/ UNCHANGED userCoupons
        \/ At(w, "insertUserCoupon") /\ userCoupons' = Append(userCoupons, UserCouponRow(w))
    BY <1>7 DEF WriteFails, Effect, DoInsertCoupon, DoFillCode, DoIncrDrawn, DoSetUser,
                DoInsertUserCoupon, db
  <2>3. QED
    BY <1>c, <1>5, <2>1, <2>2
<1>8. CASE WriteRepeated(w)
  <2>1. UNCHANGED user /\ faults' >= faults + 1
    BY <1>8, <1>a DEF WriteRepeated
  <2>2. CASE UNCHANGED userCoupons
    <3>1. pc[w] \in GrantSteps /\ \E x : Goto(w, x)
      BY <1>8, <1>e DEF WriteRepeated, At, Writes
    <3>2. faults' >= faults
      BY <1>a, <2>1
    <3>3. QED
      BY <1>c, <2>1, <2>2, <3>1, <3>2
  <2>3. CASE ~UNCHANGED userCoupons
    <3>1. /\ At(w, "insertUserCoupon") /\ Goto(w, "unlock")
          /\ userCoupons' = Append(Append(userCoupons, UserCouponRow(w)), UserCouponRow(w))
      BY <1>8, <2>3 DEF WriteRepeated, DoIncrDrawn
    <3>2. CASE user[w] # u
      <4>1. faults' >= faults
        BY <1>a, <2>1
      <4>2. Granting(u)' = Granting(u) /\ Held(u)' = Held(u)
        BY <2>1, <3>1, <3>2, GrantMove, GrantRecord
      <4>3. QED
        BY <4>1, <4>2, GrantKeep
    <3>3. CASE user[w] = u
      <4> DEFINE k == Len(userCoupons) + 1
      <4>1. w \in Granting(u)
        BY <3>1, <3>3 DEF Granting, GrantSteps, At
      <4>2. "unlock" \notin GrantSteps
        BY DEF GrantSteps
      <4>3. Granting(u)' = Granting(u) \ {w}
        BY <2>1, <3>1, <4>2, GrantMove
      <4>4. Held(u)' \subseteq (Held(u) \cup {k}) \cup {k + 1}
        BY <3>1, GrantRecord
      <4>5. k # k + 1
        BY DEF TypeOK
      <4> HIDE DEF k
      <4>6. faults' >= IF k = k + 1 THEN faults ELSE faults + 1
        BY <2>1, <4>5
      <4>7. QED
        BY <4>1, <4>3, <4>4, <4>6, GrantUse
    <3>4. QED
      BY <3>2, <3>3
  <2>4. QED
    BY <2>2, <2>3
<1>9. QED
  BY <1>1, <1>2, <1>3, <1>4, <1>6, <1>7, <1>8 DEF Step

\* So does every other step.
LEMMA GrantNext == TypeOK /\ TypeOK' /\ UserClaims /\ [Next]_vars => UserClaims'
<1> SUFFICES ASSUME TypeOK, TypeOK', [Next]_vars, NEW u \in Users,
                    GrantSum(u) <= can_draw_count[scene] + Slack + faults
             PROVE  GrantSum(u)' <= can_draw_count[scene]' + Slack + faults'
  BY DEF UserClaims, GrantSum
<1>s. scene' = scene
  BY SceneRigid
<1> USE <1>s
<1>1. CASE \E w \in Workers : Step(w)
  BY <1>1, GrantStep
<1>2. ASSUME NEW w \in Workers, NEW v \in Users, Begin(w, v)
      PROVE  GrantSum(u)' <= can_draw_count[scene]' + Slack + faults'
  <2>1. Granting(u)' \subseteq Granting(u)
    BY <1>2 DEF Begin, Granting, GrantSteps, Goto, TypeOK
  <2>2. Held(u)' = Held(u) /\ faults' >= faults
    BY <1>2 DEF Begin, NoFault, db, Held, TypeOK
  <2>3. QED
    BY <2>1, <2>2, GrantKeep
<1>3. CASE AdminCreateTable \/ (\E v \in Users : LockExpires(v)) \/ UNCHANGED vars
  <2>1. Held(u)' = Held(u) /\ Granting(u)' = Granting(u) /\ faults' >= faults
    BY <1>3 DEF AdminCreateTable, LockExpires, vars, db, local, Held, Granting, TypeOK
  <2>2. QED
    BY <2>1, GrantKeep
<1>4. CASE Crash
  <2>1. Held(u)' = Held(u) /\ Granting(u)' = {} /\ faults' >= faults
    BY <1>4 DEF Crash, Fault, db, Held, Granting, GrantSteps, TypeOK
  <2>2. QED
    BY <2>1, GrantKeep
<1>5. QED
  BY <1>1, <1>2, <1>3, <1>4 DEF Next

LEMMA GrantInit == Init => UserClaims
<1> SUFFICES ASSUME Init, NEW u \in Users
             PROVE  GrantSum(u) <= can_draw_count[scene] + Slack + faults
  BY DEF UserClaims, GrantSum
<1>1. TypeOK /\ faults = 0
  BY InitType DEF Init
<1>2. Held(u) = {} /\ Granting(u) = {}
  BY DEF Init, Held, Granting, GrantSteps
<1>3. UserCouponsCount(u) = 0 /\ Cardinality(Granting(u)) = 0
  BY <1>1, <1>2, GrantFinite, FS_EmptySet
<1>4. Cardinality(Workers) \in Nat /\ Cardinality(Workers) # 0
  BY DrawAssumption, FS_CardinalityType, FS_EmptySet
<1>5. QED
  BY <1>1, <1>3, <1>4, LimitType, DrawAssumption DEF GrantSum, Slack

\* The coupons a user has and the workers about to record one for him never
\* exceed his limit by more than one for every other worker and failure.
THEOREM GrantsHold == Spec => []UserClaims
<1>1. TypeOK /\ UserClaims /\ [Next]_vars => (TypeOK /\ UserClaims)'
  BY NextType, GrantNext
<1>2. QED
  BY <1>1, InitType, GrantInit, PTL DEF Spec

\* However many workers race for one user and whatever fails, the user gets at
\* most can_draw_count coupons, one for every other worker and one for every
\* failure.
THEOREM PerUser == Spec => []PerUserBounded
<1>1. ASSUME TypeOK, UserClaims
      PROVE  PerUserBounded
  <2>1. ASSUME NEW u \in Users
        PROVE  UserCouponsCount(u) <= can_draw_count[scene] + Slack + faults
    <3>1. UserCouponsCount(u) + Cardinality(Granting(u)) <= can_draw_count[scene] + Slack + faults
      BY <1>1 DEF UserClaims
    <3>2. UserCouponsCount(u) \in Nat /\ Cardinality(Granting(u)) \in Nat
      BY <1>1, GrantFinite
    <3>3. can_draw_count[scene] + Slack + faults \in Int
      <4>1. Cardinality(Workers) \in Nat
        BY DrawAssumption, FS_CardinalityType
      <4>2. faults \in Nat
        BY <1>1 DEF TypeOK
      <4>3. QED
        BY <1>1, <4>1, <4>2, LimitType DEF Slack
    <3>4. QED
      BY <3>1, <3>2, <3>3
  <2>2. QED
    BY <2>1 DEF PerUserBounded
<1>2. QED
  BY <1>1, TypeCorrect, GrantsHold, PTL

-----------------------------------------------------------------------------
(***************************************************************************)
(* The tables.  The coupon table, the counter, coupon_usercoupons and the  *)
(* cached lists agree with each other as far as the properties of          *)
(* CouponDraw say, and drawCoupon implements CouponIssue.                  *)
(***************************************************************************)

\* Scene "issue": before a worker has inserted its coupon, while the coupon is
\* being written down, and when only Redis is left to do.
Before  == Checks \cup {"idle", "insertCoupon"}
Drawing == {"fillCode", "incrDrawn", "insertUserCoupon"}
Ending  == {"unlock", "writeList", "writeCache"}

(***************************************************************************)
(* What a step of worker w on its way to x does to the tables in scene     *)
(* "issue": it passes without a write, or it is one of the four writes.    *)
(***************************************************************************)

Passes(w, x) ==
  /\ UNCHANGED <<coupon, drawn_count, userCoupons, code>>
  /\ \/ pc[w] \in Before \cup {"abort", "writeCache"} /\ x \in Before \cup {"abort"}
     \/ x = "abort" /\ faults' > 0
     \/ pc[w] = "insertUserCoupon" /\ x = "unlock" /\ faults' > 0
     \/ pc[w] = "unlock" /\ x = "writeList"
     \/ pc[w] = "writeList" /\ x = "writeCache"

Inserts(w, x) ==
  /\ pc[w] = "insertCoupon" /\ DoInsertCoupon(w)
  /\ x = "fillCode" \/ (x = "abort" /\ faults' > 0)

Fills(w, x) ==
  /\ pc[w] = "fillCode" /\ DoFillCode(w)
  /\ x = "incrDrawn" \/ (x = "abort" /\ faults' > 0)

Counts(w, x) ==
  /\ pc[w] = "incrDrawn" /\ UNCHANGED <<coupon, userCoupons, code>>
  /\ \/ x = "insertUserCoupon" /\ (drawn_count' = drawn_count + 1 \/ faults' > 0)
     \/ x = "abort" /\ faults' > 0

Records(w, x) ==
  /\ pc[w] = "insertUserCoupon" /\ UNCHANGED <<coupon, drawn_count, code>>
  /\ LET once == Append(userCoupons, UserCouponRow(w))
     IN  \/ userCoupons' = once /\ (x = "unlock" \/ (x = "abort" /\ faults' > 0))
         \/ userCoupons' = Append(once, UserCouponRow(w)) /\ x = "unlock" /\ faults' > 0

Does(w, x) ==
  Passes(w, x) \/ Inserts(w, x) \/ Fills(w, x) \/ Counts(w, x) \/ Records(w, x)

\* Every step of a worker does one of these.
LEMMA IssueStep ==
  ASSUME TypeOK, PathOK, scene = "issue", NEW w \in Workers, Step(w)
  PROVE  /\ \E x \in Steps : Goto(w, x) /\ Does(w, x)
         /\ UNCHANGED <<user, scene>> /\ faults' >= faults
<1>s. scene' = scene
  BY SceneStep
<1>f. /\ faults \in Nat
      /\ Fault => faults' > 0 /\ faults' >= faults
      /\ NoFault => faults' >= faults
      /\ Quiet => faults' >= faults
  BY DEF Fault, NoFault, Quiet, TypeOK
<1>a. After["checkUser"] = "lock" /\ After["lock"] = "insertCoupon" /\ After["incrDrawn"] = "insertUserCoupon"
  BY DEF After
<1>p. pc[w] # "findCoupon" /\ pc[w] # "setUser" /\ pc \in [Workers -> Steps]
  BY DEF PathOK, TypeOK
<1>1. CASE BeginSoldOut(w)
  <2>1. Goto(w, "idle") /\ Passes(w, "idle")
    BY <1>1, <1>p DEF BeginSoldOut, At, Goto, Passes, Before, db, local
  <2>2. QED
    BY <1>1, <1>s, <1>f, <2>1 DEF BeginSoldOut, local, Does, Steps
<1>2. CASE \/ CountReal(w) \/ TableMissing(w) \/ CheckList(w) \/ ListUnread(w)
           \/ CheckUser(w) \/ Refuse(w) \/ AcquireLock(w) \/ InsertConflict(w) \/ Abort(w)
           \/ WriteCache(w)
  <2>1. PICK x \in Before \cup {"abort"} : Goto(w, x)
    BY <1>2, <1>a DEF CountReal, TableMissing, CheckList, ListUnread, CheckUser, Refuse,
       AcquireLock, InsertConflict, Abort, WriteCache, Before, Checks
  <2>2. pc[w] \in Before \cup {"abort", "writeCache"}
    BY <1>2 DEF CountReal, TableMissing, CheckList, ListUnread, CheckUser, Refuse,
       AcquireLock, InsertConflict, Abort, WriteCache, Before, Checks, At
  <2>3. UNCHANGED <<coupon, drawn_count, userCoupons, code, user>>
    BY <1>2 DEF CountReal, TableMissing, CheckList, ListUnread, CheckUser, Refuse,
       AcquireLock, InsertConflict, Abort, WriteCache, db, local
  <2>4. faults' >= faults
    BY <1>2, <1>f DEF CountReal, TableMissing, CheckList, ListUnread, CheckUser, Refuse,
       AcquireLock, InsertConflict, Abort, WriteCache
  <2>5. x \in Steps
    BY DEF Before, Checks, Steps, Writes
  <2>6. QED
    BY <1>s, <2>1, <2>2, <2>3, <2>4, <2>5 DEF Does, Passes
<1>3. CASE SetUserUnchanged(w) \/ SetUser(w) \/ FindCoupon(w)
  BY <1>3, <1>p DEF SetUserUnchanged, SetUser, FindCoupon, At
<1>4. CASE InsertUserCouponUnnoticed(w) \/ Unlock(w) \/ WriteList(w)
  <2>1. \E x \in Steps : Goto(w, x) /\ Passes(w, x)
    BY <1>4, <1>f DEF InsertUserCouponUnnoticed, Unlock, WriteList, At, Passes, db, local, Steps, Writes
  <2>2. QED
    BY <1>4, <1>s, <1>f, <2>1 DEF InsertUserCouponUnnoticed, Unlock, WriteList, local, Does
<1>5. CASE InsertCoupon(w)
  BY <1>5, <1>s, <1>f DEF InsertCoupon, Inserts, Does, At, Steps, Writes
<1>6. CASE FillCode(w)
  BY <1>6, <1>s, <1>f DEF FillCode, Fills, Does, At, Steps, Writes
<1>7. CASE IncrDrawn(w)
  BY <1>7, <1>s, <1>f, <1>a DEF IncrDrawn, DoIncrDrawn, Increment, Counts, Does, At, Steps, Writes
<1>8. CASE InsertUserCoupon(w)
  BY <1>8, <1>s, <1>f DEF InsertUserCoupon, DoInsertUserCoupon, Records, Does, At, Steps
<1>9. CASE WriteFails(w)
  <2>1. Goto(w, "abort") /\ UNCHANGED user /\ faults' > 0 /\ faults' >= faults /\ "abort" \in Steps
    BY <1>9, <1>f DEF WriteFails, Steps
  <2>2. CASE UNCHANGED <<db, code>>
    BY <1>s, <2>1, <2>2 DEF Does, Passes, db
  <2>3. CASE Effect(w)
    <3>1. Does(w, "abort")
      BY <1>p, <2>1, <2>3 DEF Effect, At, Does, Inserts, Fills, Counts, DoIncrDrawn, Records,
         DoInsertUserCoupon
    <3>2. QED
      BY <1>s, <2>1, <3>1
  <2>4. QED
    BY <1>9, <2>2, <2>3 DEF WriteFails
<1>10. CASE WriteRepeated(w)
  <2>1. UNCHANGED user /\ faults' > 0 /\ faults' >= faults
    BY <1>10, <1>f DEF WriteRepeated
  <2>2. \E x \in Steps : Goto(w, x) /\ (Counts(w, x) \/ Records(w, x))
    BY <1>10, <1>a, <2>1 DEF WriteRepeated, At, Counts, DoIncrDrawn, Records, Steps, Writes
  <2>3. QED
    BY <1>s, <2>1, <2>2 DEF Does
<1>11. QED
  BY <1>1, <1>2, <1>3, <1>4, <1>5, <1>6, <1>7, <1>8, <1>9, <1>10 DEF Step

-----------------------------------------------------------------------------
(***************************************************************************)
(* Rows of the coupon table are added and completed, never taken back.     *)
(***************************************************************************)

Grown ==
  /\ DOMAIN coupon \subseteq DOMAIN coupon'
  /\ \A k \in DOMAIN coupon :
       /\ coupon'[k].user = coupon[k].user
       /\ coupon[k].coded => coupon'[k].coded

LEMMA DoesGrow ==
  ASSUME TypeOK, NEW w \in Workers, NEW x, Does(w, x)
  PROVE  Grown
<1>1. coupon \in Seq(Row) /\ user[w] \in Users /\ code[w] \in Nat
  BY DEF TypeOK
<1>2. CASE DoInsertCoupon(w)
  <2>1. [user |-> user[w], coded |-> FALSE] \in Row
    BY <1>1 DEF Row
  <2>2. QED
    BY <1>1, <1>2, <2>1, AppendRow DEF DoInsertCoupon, Grown
<1>3. CASE DoFillCode(w)
  BY <1>1, <1>3, WithCodeType DEF DoFillCode, Grown
<1>4. CASE UNCHANGED coupon
  BY <1>4 DEF Grown
<1>5. QED
  BY <1>2, <1>3, <1>4 DEF Does, Passes, Inserts, Fills, Counts, Records

\* The steps that are no worker's leave the tables alone; no worker is at a
\* statement after a crash.
LEMMA OtherStep ==
  ASSUME TypeOK, [Next]_vars, ~ \E w \in Workers : Step(w)
  PROVE  /\ UNCHANGED <<scene, coupon, drawn_count, userCoupons, list>> /\ faults' >= faults
         /\ \/ \E w \in Workers, u \in Users, k \in Nat :
                 /\ At(w, "idle") /\ Goto(w, "countReal")
                 /\ user' = [user EXCEPT ![w] = u] /\ code' = [code EXCEPT ![w] = k]
                 /\ seen' = [seen EXCEPT ![w] = << >>]
            \/ UNCHANGED <<pc, user, code, seen>>
            \/ /\ pc' = [w \in Workers |-> "idle"] /\ UNCHANGED user
               /\ seen' = [w \in Workers |-> << >>] /\ faults' > 0
<1>f. faults \in Nat
  BY DEF TypeOK
<1>1. ASSUME NEW w \in Workers, NEW u \in Users, Begin(w, u)
      PROVE  /\ UNCHANGED <<db, redis, faults>>
             /\ \E k \in Nat :
                 /\ At(w, "idle") /\ Goto(w, "countReal")
                 /\ user' = [user EXCEPT ![w] = u] /\ code' = [code EXCEPT ![w] = k]
                 /\ seen' = [seen EXCEPT ![w] = << >>]
  <2>1. PICK k \in (IF scene = "issue" THEN {NoCode} ELSE DOMAIN coupon) :
          code' = [code EXCEPT ![w] = k]
    BY <1>1 DEF Begin
  <2>2. k \in Nat
    BY <2>1 DEF NoCode, TypeOK
  <2>3. QED
    BY <1>1, <2>1, <2>2 DEF Begin, NoFault
<1>2. CASE \E w \in Workers, u \in Users : Begin(w, u)
  BY <1>f, <1>1, <1>2 DEF db, redis
<1>3. CASE AdminCreateTable \/ (\E u \in Users : LockExpires(u)) \/ UNCHANGED vars
  BY <1>f, <1>3 DEF AdminCreateTable, LockExpires, vars, db, redis, local
<1>4. CASE Crash
  BY <1>f, <1>4 DEF Crash, Fault, db
<1>5. QED
  BY <1>2, <1>3, <1>4 DEF Next

LEMMA NextGrows ==
  TypeOK /\ PathOK /\ scene = "issue" /\ [Next]_vars => Grown /\ faults' >= faults
<1> SUFFICES ASSUME TypeOK, PathOK, scene = "issue", [Next]_vars
             PROVE  Grown /\ faults' >= faults
  OBVIOUS
<1>1. CASE \E w \in Workers : Step(w)
  BY <1>1, IssueStep, DoesGrow
<1>2. CASE ~ \E w \in Workers : Step(w)
  BY <1>2, OtherStep DEF Grown
<1>3. QED
  BY <1>1, <1>2

\* A coupon drawn in scene "issue" is never given to somebody else.
THEOREM OwnerFinal == Spec => OwnerIsFinal
<1>1. TypeOK /\ PathOK /\ [Next]_vars =>
        (\A id \in DOMAIN coupon :
           scene = "issue" /\ coupon[id].user # NoUser => coupon'[id].user = coupon[id].user)
  BY NextGrows DEF Grown
<1>2. TypeOK /\ PathOK /\ [Next]_vars => (TypeOK /\ PathOK)'
  BY NextType, PathStep
<1>3. QED
  BY <1>1, <1>2, InitType, PathInit, PTL DEF Spec, OwnerIsFinal

-----------------------------------------------------------------------------
(***************************************************************************)
(* The coupon a worker is writing down is its user's.                      *)
(***************************************************************************)

CodeOK ==
  scene = "issue" => \A w \in Workers : pc[w] \in Drawing \cup Ending =>
    /\ code[w] \in DOMAIN coupon /\ coupon[code[w]].user = user[w]
    /\ pc[w] # "fillCode" => coupon[code[w]].coded

LEMMA CodeStep ==
  ASSUME TypeOK, PathOK, CodeOK, scene = "issue", NEW w \in Workers, Step(w)
  PROVE  CodeOK'
<1>0. PICK x \in Steps : Goto(w, x) /\ Does(w, x)
  BY IssueStep
<1>1. UNCHANGED <<user, scene>> /\ Grown
  BY <1>0, IssueStep, DoesGrow
<1>2. coupon \in Seq(Row) /\ user[w] \in Users /\ code \in [Workers -> Nat]
      /\ pc \in [Workers -> Steps]
  BY DEF TypeOK
<1>3. ASSUME NEW v \in Workers, v # w, pc'[v] \in Drawing \cup Ending
      PROVE  /\ code'[v] \in DOMAIN coupon' /\ coupon'[code'[v]].user = user'[v]
             /\ pc'[v] # "fillCode" => coupon'[code'[v]].coded
  <2>1. pc'[v] = pc[v] /\ code'[v] = code[v]
    BY <1>0, <1>2, <1>3 DEF Goto, Does, Passes, Inserts, DoInsertCoupon, Fills, DoFillCode,
       Counts, Records
  <2>2. QED
    BY <1>1, <1>3, <2>1 DEF CodeOK, Grown
<1>4. ASSUME x \in Drawing \cup Ending
      PROVE  /\ code'[w] \in DOMAIN coupon' /\ coupon'[code'[w]].user = user'[w]
             /\ x # "fillCode" => coupon'[code'[w]].coded
  <2>1. CASE Inserts(w, x)
    <3>1. [user |-> user[w], coded |-> FALSE] \in Row
      BY <1>2 DEF Row
    <3>2. QED
      BY <1>1, <1>2, <1>4, <2>1, <3>1, AppendRow DEF Inserts, DoInsertCoupon, Drawing, Ending
  <2>2. CASE Fills(w, x)
    <3>1. code[w] \in DOMAIN coupon /\ code[w] \in Nat /\ coupon[code[w]].user = user[w]
      BY <1>2, <2>2 DEF CodeOK, Fills, Drawing
    <3>2. QED
      BY <1>1, <1>2, <2>2, <3>1, WithCodeType DEF Fills, DoFillCode
  <2>3. CASE Counts(w, x) \/ Records(w, x) \/ Passes(w, x)
    <3>1. UNCHANGED <<coupon, code>>
      BY <2>3 DEF Counts, Records, Passes
    <3>2. pc[w] \in Drawing \cup Ending /\ pc[w] # "fillCode"
      BY <1>4, <2>3 DEF Counts, Records, Passes, Drawing, Ending, Before, Checks
    <3>3. QED
      BY <1>1, <3>1, <3>2 DEF CodeOK
  <2>4. QED
    BY <1>0, <2>1, <2>2, <2>3 DEF Does
<1>5. pc'[w] = x
  BY <1>0, <1>2 DEF Goto
<1>6. QED
  BY <1>1, <1>3, <1>4, <1>5 DEF CodeOK

LEMMA CodeNext == TypeOK /\ PathOK /\ CodeOK /\ [Next]_vars => CodeOK'
<1> SUFFICES ASSUME TypeOK, PathOK, CodeOK, [Next]_vars, scene = "issue"
             PROVE  CodeOK'
  BY SceneRigid DEF CodeOK
<1>1. CASE \E w \in Workers : Step(w)
  BY <1>1, CodeStep
<1>2. CASE ~ \E w \in Workers : Step(w)
  <2>1. "idle" \notin Drawing \cup Ending /\ "countReal" \notin Drawing \cup Ending
    BY DEF Drawing, Ending
  <2>2. QED
    BY <1>2, <2>1, OtherStep DEF CodeOK, TypeOK, Goto
<1>3. QED
  BY <1>1, <1>2

\* Facts about the first states that need no more than their definition.
LEMMA CodeInit == Init => CodeOK
  BY DEF Init, CodeOK, Drawing, Ending

-----------------------------------------------------------------------------
(***************************************************************************)
(* The table coupon_usercoupons and the coupon table.                      *)
(***************************************************************************)

LEMMA BackedNext ==
  TypeOK /\ TypeOK' /\ PathOK /\ CodeOK /\ Backed /\ [Next]_vars => Backed'
<1> SUFFICES ASSUME TypeOK, TypeOK', PathOK, CodeOK, Backed, [Next]_vars, scene = "issue",
                    NEW k \in DOMAIN userCoupons'
             PROVE  LET c == userCoupons'[k].coupon
                    IN  /\ c \in DOMAIN coupon'
                        /\ coupon'[c] = [user |-> userCoupons'[k].user, coded |-> TRUE]
  BY SceneRigid DEF Backed
<1>1. Grown
  BY NextGrows
<1>2. coupon' \in Seq(Row) /\ userCoupons \in Seq(UserCoupon) /\ coupon \in Seq(Row)
  BY DEF TypeOK
<1>3. ASSUME NEW c \in DOMAIN coupon', NEW u, coupon'[c].user = u, coupon'[c].coded
      PROVE  coupon'[c] = [user |-> u, coded |-> TRUE]
  <2>1. coupon'[c] \in Row
    BY <1>2
  <2>2. coupon'[c].coded = TRUE
    BY <1>3, <2>1 DEF Row
  <2>3. QED
    BY <1>3, <2>1, <2>2 DEF Row
<1>4. \/ k \in DOMAIN userCoupons /\ userCoupons'[k] = userCoupons[k]
      \/ \E w \in Workers : pc[w] = "insertUserCoupon" /\ userCoupons'[k] = UserCouponRow(w)
  <2>1. CASE UNCHANGED userCoupons
    BY <2>1
  <2>2. ASSUME NEW w \in Workers, Step(w), ~ UNCHANGED userCoupons
        PROVE  pc[w] = "insertUserCoupon" /\ (userCoupons'[k] = UserCouponRow(w) \/
                 (k \in DOMAIN userCoupons /\ userCoupons'[k] = userCoupons[k]))
    <3>1. PICK x \in Steps : Records(w, x)
      BY <2>2, IssueStep DEF Does, Passes, Inserts, DoInsertCoupon, Fills, DoFillCode, Counts
    <3>2. UserCouponRow(w) \in UserCoupon
      BY DEF TypeOK, UserCouponRow, UserCoupon
    <3>3. QED
      BY <1>2, <3>1, <3>2, AppendRow DEF Records
  <2>3. CASE ~ \E w \in Workers : Step(w)
    BY <2>1, <2>3, OtherStep
  <2>4. QED
    BY <2>1, <2>2, <2>3
<1>5. CASE k \in DOMAIN userCoupons /\ userCoupons'[k] = userCoupons[k]
  BY <1>1, <1>3, <1>5 DEF Backed, Grown
<1>6. ASSUME NEW w \in Workers, pc[w] = "insertUserCoupon", userCoupons'[k] = UserCouponRow(w)
      PROVE  LET c == userCoupons'[k].coupon
             IN  /\ c \in DOMAIN coupon'
                 /\ coupon'[c] = [user |-> userCoupons'[k].user, coded |-> TRUE]
  <2>1. code[w] \in DOMAIN coupon /\ coupon[code[w]].user = user[w] /\ coupon[code[w]].coded
    BY <1>6 DEF CodeOK, Drawing
  <2>2. userCoupons'[k].coupon = code[w] /\ userCoupons'[k].user = user[w]
    BY <1>6 DEF UserCouponRow
  <2>3. /\ code[w] \in DOMAIN coupon' /\ coupon'[code[w]].user = user[w]
        /\ coupon'[code[w]].coded
    BY <1>1, <2>1 DEF Grown
  <2>4. QED
    BY <1>3, <2>2, <2>3
<1>7. QED
  BY <1>4, <1>5, <1>6

\* A row of coupon_usercoupons never names a coupon that is not its user's, or
\* that has no code.
THEOREM TablesAgree == Spec => []Backed
<1>1. Init => Backed
  BY DEF Init, Backed
<1>2. TypeOK /\ PathOK /\ CodeOK /\ Backed /\ [Next]_vars =>
        (TypeOK /\ PathOK /\ CodeOK /\ Backed)'
  BY NextType, PathStep, CodeNext, BackedNext
<1>3. QED
  BY <1>1, <1>2, InitType, PathInit, CodeInit, PTL DEF Spec

-----------------------------------------------------------------------------
(***************************************************************************)
(* The cached code lists.                                                  *)
(***************************************************************************)

\* A list is sound for user u.
Sound(u, codes) ==
  /\ Len(codes) <= cache_codes_capacity
  /\ scene = "issue" => \A i \in DOMAIN codes :
       /\ codes[i] \in DOMAIN coupon
       /\ coupon[codes[i]] = [user |-> u, coded |-> TRUE]
       /\ \A j \in DOMAIN codes : codes[i] = codes[j] => i = j

\* What a worker has read of a list is sound, and does not have its new code yet.
SeenSound ==
  \A w \in Workers :
    /\ Sound(user[w], seen[w])
    /\ scene = "issue" /\ pc[w] \in Drawing \cup Ending =>
         \A i \in DOMAIN seen[w] : seen[w][i] # code[w]

\* What a worker's step does to the lists.
LEMMA ListStep ==
  ASSUME TypeOK, NEW w \in Workers, Step(w)
  PROVE  \/ UNCHANGED <<list, seen>>
         \/ UNCHANGED list /\ Goto(w, "checkUser") /\ seen' = [seen EXCEPT ![w] = list[user[w]]]
         \/ UNCHANGED list /\ seen' = [seen EXCEPT ![w] = << >>]
         \/ /\ pc[w] = "writeList" /\ seen' = [seen EXCEPT ![w] = << >>]
            /\ list' = [list EXCEPT ![user[w]] = Push(seen[w], code[w])]
<1>1. CASE \/ BeginSoldOut(w) \/ CountReal(w) \/ TableMissing(w) \/ CheckUser(w)
           \/ FindCoupon(w) \/ Refuse(w) \/ AcquireLock(w) \/ InsertConflict(w)
           \/ SetUserUnchanged(w) \/ InsertUserCouponUnnoticed(w) \/ Unlock(w) \/ Abort(w)
           \/ WriteCache(w)
  BY <1>1 DEF BeginSoldOut, CountReal, TableMissing, CheckUser, FindCoupon, Refuse, AcquireLock,
     InsertConflict, SetUserUnchanged, InsertUserCouponUnnoticed, Unlock, Abort, WriteCache,
     redis, local
<1>2. CASE \/ InsertCoupon(w) \/ FillCode(w) \/ IncrDrawn(w) \/ SetUser(w)
           \/ InsertUserCoupon(w) \/ WriteFails(w) \/ WriteRepeated(w)
  BY <1>2 DEF InsertCoupon, FillCode, IncrDrawn, SetUser, InsertUserCoupon, WriteFails,
     WriteRepeated, redis
<1>3. CASE CheckList(w) \/ ListUnread(w)
  BY <1>3 DEF CheckList, ListUnread, redis
<1>4. CASE WriteList(w)
  BY <1>4 DEF WriteList, At
<1>5. QED
  BY <1>1, <1>2, <1>3, <1>4 DEF Step

\* A sound list stays sound when rows are added and completed.
LEMMA SoundKept ==
  ASSUME TypeOK, TypeOK', scene' = scene, scene = "issue" => Grown, NEW u, NEW codes,
         Sound(u, codes)
  PROVE  Sound(u, codes)'
<1>1. ASSUME scene = "issue", NEW k \in DOMAIN coupon, coupon[k] = [user |-> u, coded |-> TRUE]
      PROVE  k \in DOMAIN coupon' /\ coupon'[k] = [user |-> u, coded |-> TRUE]
  <2>1. k \in DOMAIN coupon' /\ coupon'[k].user = u /\ coupon'[k].coded
    BY <1>1 DEF Grown
  <2>2. coupon'[k] \in Row
    BY <2>1 DEF TypeOK
  <2>3. coupon'[k].coded = TRUE
    BY <2>1, <2>2 DEF Row
  <2>4. QED
    BY <2>1, <2>2, <2>3 DEF Row
<1>2. QED
  BY <1>1 DEF Sound

\* A code of the user that is not in his list yet can be pushed.
LEMMA PushSound ==
  ASSUME NEW u, NEW codes \in Seq(Nat), NEW k \in Nat, Sound(u, codes),
         scene = "issue" =>
           /\ k \in DOMAIN coupon /\ coupon[k] = [user |-> u, coded |-> TRUE]
           /\ \A i \in DOMAIN codes : codes[i] # k
  PROVE  Sound(u, Push(codes, k))
<1> DEFINE rest == IF Len(codes) >= cache_codes_capacity THEN Tail(codes) ELSE codes
<1>1. /\ rest \in Seq(Nat) /\ Len(rest) + 1 <= cache_codes_capacity
      /\ \E d \in Nat : \A i \in DOMAIN rest : i + d \in DOMAIN codes /\ rest[i] = codes[i + d]
  <2>1. CASE Len(codes) >= cache_codes_capacity
    <3>1. codes # << >>
      BY <2>1, DrawAssumption
    <3>2. /\ rest = Tail(codes) /\ rest \in Seq(Nat) /\ Len(rest) = Len(codes) - 1
          /\ \A i \in DOMAIN rest : i + 1 \in DOMAIN codes /\ rest[i] = codes[i + 1]
      BY <2>1, <3>1
    <3>3. QED
      BY <3>2, DrawAssumption DEF Sound
  <2>2. CASE ~ Len(codes) >= cache_codes_capacity
    <3>1. rest = codes /\ Len(rest) + 1 <= cache_codes_capacity
      BY <2>2, DrawAssumption
    <3>2. \A i \in DOMAIN rest : i + 0 \in DOMAIN codes /\ rest[i] = codes[i + 0]
      BY <3>1
    <3>3. QED
      BY <3>1, <3>2
  <2>3. QED
    BY <2>1, <2>2
<1>2. Push(codes, k) = Append(rest, k)
  BY DEF Push
<1> HIDE DEF rest
<1>3. Len(Push(codes, k)) <= cache_codes_capacity
  BY <1>1, <1>2
<1>4. ASSUME scene = "issue", NEW i \in DOMAIN Push(codes, k)
      PROVE  /\ Push(codes, k)[i] \in DOMAIN coupon
             /\ coupon[Push(codes, k)[i]] = [user |-> u, coded |-> TRUE]
             /\ \A j \in DOMAIN Push(codes, k) : Push(codes, k)[i] = Push(codes, k)[j] => i = j
  <2>1. PICK d \in Nat : \A j \in DOMAIN rest : j + d \in DOMAIN codes /\ rest[j] = codes[j + d]
    BY <1>1
  <2>2. /\ DOMAIN Push(codes, k) = DOMAIN rest \cup {Len(rest) + 1}
        /\ \A j \in DOMAIN rest : Push(codes, k)[j] = rest[j]
        /\ Push(codes, k)[Len(rest) + 1] = k
        /\ DOMAIN rest \subseteq Nat
    BY <1>1, <1>2, AppendRow
  <2>3. \A j \in DOMAIN rest :
          /\ rest[j] # k /\ rest[j] \in DOMAIN coupon
          /\ coupon[rest[j]] = [user |-> u, coded |-> TRUE]
    BY <1>4, <2>1 DEF Sound
  <2>4. \A j, l \in DOMAIN rest : rest[j] = rest[l] => j = l
    BY <1>4, <2>1, <2>2 DEF Sound
  <2>5. QED
    BY <1>4, <2>2, <2>3, <2>4
<1>5. QED
  BY <1>3, <1>4 DEF Sound

\* No step of a request changes its user.
LEMMA UserStep ==
  ASSUME NEW w \in Workers, Step(w)
  PROVE  UNCHANGED user
  BY DEF Step, BeginSoldOut, CountReal, TableMissing, CheckList, ListUnread, CheckUser, FindCoupon,
     Refuse, AcquireLock, InsertCoupon, InsertConflict, FillCode, IncrDrawn, SetUser,
     SetUserUnchanged, InsertUserCoupon, WriteFails, WriteRepeated, InsertUserCouponUnnoticed,
     Unlock, Abort, WriteList, WriteCache, local

LEMMA ListsNext ==
  ASSUME TypeOK, TypeOK', PathOK, CodeOK, SeenSound, ListSound, [Next]_vars
  PROVE  SeenSound' /\ ListSound'
<1>s. scene' = scene /\ (scene = "issue" => Grown)
  BY SceneRigid, NextGrows
<1>t. /\ seen \in [Workers -> Seq(Nat)] /\ list \in [Users -> Seq(Nat)]
      /\ user \in [Workers -> Users] /\ code \in [Workers -> Nat] /\ coupon \in Seq(Row)
      /\ pc \in [Workers -> Steps]
  BY DEF TypeOK
<1>e. \A u : Sound(u, << >>)
  BY DrawAssumption DEF Sound
<1>l. \A u \in Users : Sound(u, list[u])
  BY DEF ListSound, Sound
<1>k. ASSUME NEW u, NEW codes, Sound(u, codes)
      PROVE  Sound(u, codes)'
  BY <1>s, <1>k, SoundKept
\* The list that WriteList writes.
<1>p. ASSUME NEW w \in Workers, pc[w] = "writeList"
      PROVE  Sound(user[w], Push(seen[w], code[w]))
  <2>1. ASSUME scene = "issue"
        PROVE  /\ code[w] \in DOMAIN coupon
               /\ coupon[code[w]] = [user |-> user[w], coded |-> TRUE]
               /\ \A i \in DOMAIN seen[w] : seen[w][i] # code[w]
    <3>1. /\ code[w] \in DOMAIN coupon /\ coupon[code[w]].user = user[w] /\ coupon[code[w]].coded
          /\ \A i \in DOMAIN seen[w] : seen[w][i] # code[w]
      BY <1>p, <2>1 DEF CodeOK, SeenSound, Ending
    <3>2. coupon[code[w]] \in Row
      BY <1>t, <3>1
    <3>3. coupon[code[w]].coded = TRUE
      BY <3>1, <3>2 DEF Row
    <3>4. QED
      BY <3>1, <3>2, <3>3 DEF Row
  <2>2. seen[w] \in Seq(Nat) /\ code[w] \in Nat /\ Sound(user[w], seen[w])
    BY <1>t DEF SeenSound
  <2>3. QED
    BY <2>1, <2>2, PushSound
\* Every list written is sound.
<1>1. ListSound'
  <2>1. ASSUME NEW u \in Users
        PROVE  Sound(u, list'[u])
    <3>1. CASE UNCHANGED list
      BY <1>l, <3>1
    <3>2. CASE \E w \in Workers : /\ pc[w] = "writeList"
                                  /\ list' = [list EXCEPT ![user[w]] = Push(seen[w], code[w])]
      BY <1>l, <1>p, <1>t, <3>2
    <3>3. QED
      BY <3>1, <3>2, ListStep, OtherStep
  <2>2. QED
    <3>1. ASSUME NEW u \in Users, NEW codes, codes = list'[u]
          PROVE  Sound(u, codes)'
      BY <1>k, <2>1, <3>1
    <3>2. QED
      BY <3>1 DEF ListSound, Sound
\* Every list read is sound, and misses the code its reader has.
<1>2. ASSUME NEW w \in Workers
      PROVE  Sound(user'[w], seen'[w])
  <2>1. CASE user'[w] = user[w] /\ seen'[w] \in {seen[w], list[user[w]]}
    BY <1>l, <1>t, <2>1 DEF SeenSound
  <2>2. CASE seen'[w] = << >>
    BY <1>e, <2>2
  <2>3. ASSUME NEW v \in Workers, Step(v)
        PROVE  \/ user'[w] = user[w] /\ seen'[w] \in {seen[w], list[user[w]]}
               \/ seen'[w] = << >>
    <3>1. UNCHANGED user
      BY <2>3, UserStep
    <3>2. QED
      BY <1>t, <2>3, <3>1, ListStep
  <2>4. CASE ~ \E v \in Workers : Step(v)
    BY <1>t, <2>1, <2>2, <2>4, OtherStep
  <2>5. QED
    BY <2>1, <2>2, <2>3, <2>4
<1>3. ASSUME NEW w \in Workers, scene = "issue", pc'[w] \in Drawing \cup Ending,
             NEW i \in DOMAIN seen'[w]
      PROVE  seen'[w][i] # code'[w]
  <2>0. CASE ~ \E v \in Workers : Step(v)
    <3>1. \/ pc'[w] \in {"idle", "countReal"}
          \/ pc'[w] = pc[w] /\ seen'[w] = seen[w] /\ code'[w] = code[w]
      BY <1>t, <2>0, OtherStep DEF Goto
    <3>2. QED
      BY <1>3, <3>1 DEF SeenSound, Drawing, Ending
  <2>a. SUFFICES ASSUME NEW v \in Workers, Step(v)
                 PROVE  seen'[w][i] # code'[w]
    BY <2>0
  <2>1. Step(v)
    BY <2>a
  <2>2. PICK x \in Steps : Goto(v, x) /\ Does(v, x)
    BY <1>3, <2>1, IssueStep
  <2>3. CASE v # w
    <3>1. pc'[w] = pc[w] /\ seen'[w] = seen[w] /\ code'[w] = code[w]
      BY <1>t, <2>1, <2>2, <2>3, ListStep DEF Goto, Does, Passes, Inserts, DoInsertCoupon,
         Fills, DoFillCode, Counts, Records
    <3>2. QED
      BY <1>3, <3>1 DEF SeenSound
  <2>4. CASE v = w
    <3>1. pc'[w] = x /\ x # "checkUser"
      BY <1>3, <1>t, <2>2, <2>4 DEF Goto, Drawing, Ending
    <3>2. seen'[w] = seen[w]
      <4>1. ~ Goto(w, "checkUser") /\ seen'[w] # << >>
        BY <1>3, <1>t, <3>1 DEF Goto
      <4>2. seen' # [seen EXCEPT ![w] = << >>]
        BY <1>t, <4>1
      <4>3. QED
        BY <2>1, <2>4, <4>1, <4>2, ListStep
    <3>3. CASE Inserts(w, x)
      <4>1. code'[w] = Len(coupon) + 1
        BY <1>t, <3>3 DEF Inserts, DoInsertCoupon
      <4>2. seen[w][i] \in DOMAIN coupon
        BY <1>3, <3>2 DEF SeenSound, Sound
      <4>3. QED
        BY <1>t, <3>2, <4>1, <4>2
    <3>4. CASE ~ Inserts(w, x)
      <4>1. code'[w] = code[w]
        BY <2>2, <2>4, <3>4 DEF Does, Passes, Fills, DoFillCode, Counts, Records
      <4>2. pc[w] \in Drawing \cup Ending
        BY <1>3, <2>2, <2>4, <3>1, <3>4 DEF Does, Passes, Fills, Counts, Records, Drawing,
           Ending, Before, Checks
      <4>3. QED
        BY <1>3, <3>2, <4>1, <4>2 DEF SeenSound
    <3>5. QED
      BY <3>3, <3>4
  <2>5. QED
    BY <2>3, <2>4
<1>4. SeenSound'
  <2>1. ASSUME NEW w \in Workers, NEW codes, NEW u, codes = seen'[w], u = user'[w]
        PROVE  Sound(u, codes)'
    BY <1>k, <1>2, <2>1
  <2>2. QED
    BY <1>s, <1>3, <2>1 DEF SeenSound, Sound
<1>5. QED
  BY <1>1, <1>4

LEMMA ListsInit == Init => SeenSound /\ ListSound
  BY DrawAssumption DEF Init, SeenSound, ListSound, Sound, Drawing, Ending

\* A cached list names distinct coupons of its user, all of them usable, and no
\* more than its capacity.
THEOREM ListsAreSound == Spec => []ListSound
<1> DEFINE I == TypeOK /\ PathOK /\ CodeOK /\ SeenSound /\ ListSound
<1>1. Init => I
  BY InitType, PathInit, CodeInit, ListsInit
<1>2. I /\ [Next]_vars => I'
  BY NextType, PathStep, CodeNext, ListsNext
<1>3. I => ListSound
  OBVIOUS
<1> HIDE DEF I
<1>4. QED
  BY <1>1, <1>2, <1>3, PTL DEF Spec

-----------------------------------------------------------------------------
(***************************************************************************)
(* What a step of a worker does to the tables in scene "export".           *)
(***************************************************************************)

\* The row the request names becomes its user's.
Claims(w, x) ==
  /\ coupon' = WithUser(w) /\ UNCHANGED userCoupons
  /\ x = "insertUserCoupon" \/ faults' > 0

ExportRecords(w, x) ==
  /\ UNCHANGED coupon /\ x # "insertUserCoupon"
  /\ userCoupons' = Append(userCoupons, UserCouponRow(w)) \/ faults' > 0

ExportPasses(w, x) ==
  /\ UNCHANGED <<coupon, userCoupons>>
  /\ pc[w] # "insertUserCoupon" /\ x # "insertUserCoupon"

LEMMA ExportStep ==
  ASSUME TypeOK, PathOK, scene = "export", NEW w \in Workers, Step(w)
  PROVE  /\ \E x : Goto(w, x) /\ (Claims(w, x) \/ ExportRecords(w, x) \/ ExportPasses(w, x))
         /\ UNCHANGED <<user, code>> /\ faults' >= faults
<1>f. /\ faults \in Nat
      /\ Fault => faults' > 0 /\ faults' >= faults
      /\ NoFault => faults' >= faults
      /\ Quiet => faults' >= faults
  BY DEF Fault, NoFault, Quiet, TypeOK
<1>a. /\ After["checkUser"] = "findCoupon" /\ After["lock"] = "incrDrawn"
      /\ After["incrDrawn"] = "setUser"
  BY DEF After
<1>p. pc[w] # "insertCoupon" /\ pc[w] # "fillCode" /\ pc \in [Workers -> Steps]
  BY DEF PathOK, TypeOK
<1>1. CASE BeginSoldOut(w)
  BY <1>1, <1>f, <1>p DEF BeginSoldOut, At, Goto, ExportPasses, db, local
<1>2. CASE \/ CountReal(w) \/ TableMissing(w) \/ CheckList(w) \/ ListUnread(w) \/ CheckUser(w)
           \/ FindCoupon(w) \/ Refuse(w) \/ AcquireLock(w) \/ SetUserUnchanged(w) \/ Unlock(w)
           \/ Abort(w) \/ WriteList(w) \/ WriteCache(w)
  <2>1. UNCHANGED <<coupon, userCoupons, user, code>> /\ faults' >= faults
    BY <1>2, <1>f DEF CountReal, TableMissing, CheckList, ListUnread, CheckUser, FindCoupon, Refuse,
       AcquireLock, SetUserUnchanged, Unlock, Abort, WriteList, WriteCache, db, local
  <2>2. /\ \E x : Goto(w, x) /\ x # "insertUserCoupon"
        /\ pc[w] # "insertUserCoupon"
    BY <1>2, <1>a DEF CountReal, TableMissing, CheckList, ListUnread, CheckUser, FindCoupon, Refuse,
       AcquireLock, SetUserUnchanged, Unlock, Abort, WriteList, WriteCache, At, Checks
  <2>3. QED
    BY <2>1, <2>2 DEF ExportPasses
<1>3. CASE InsertCoupon(w) \/ InsertConflict(w) \/ FillCode(w)
  BY <1>3, <1>p DEF InsertCoupon, InsertConflict, FillCode, At
<1>4. CASE IncrDrawn(w)
  BY <1>4, <1>f, <1>a DEF IncrDrawn, DoIncrDrawn, At, ExportPasses
<1>5. CASE SetUser(w)
  BY <1>5, <1>f DEF SetUser, DoSetUser, At, Claims
<1>6. CASE InsertUserCoupon(w)
  BY <1>6, <1>f DEF InsertUserCoupon, DoInsertUserCoupon, At, ExportRecords
<1>7. CASE InsertUserCouponUnnoticed(w)
  BY <1>7, <1>f DEF InsertUserCouponUnnoticed, At, ExportRecords, db, local
<1>8. CASE WriteRepeated(w)
  <2>1. UNCHANGED user /\ faults' > 0 /\ faults' >= faults
    BY <1>8, <1>f DEF WriteRepeated
  <2>2. \E x : Goto(w, x) /\ UNCHANGED <<coupon, code>> /\ x # "insertUserCoupon"
    BY <1>8, <1>a DEF WriteRepeated, DoIncrDrawn
  <2>3. QED
    BY <2>1, <2>2 DEF ExportRecords
<1>9. CASE WriteFails(w)
  <2>1. Goto(w, "abort") /\ UNCHANGED user /\ faults' > 0 /\ faults' >= faults
    BY <1>9, <1>f DEF WriteFails
  <2>2. CASE DoSetUser(w)
    BY <2>1, <2>2 DEF DoSetUser, Claims
  <2>3. CASE UNCHANGED <<coupon, code>>
    BY <2>1, <2>3 DEF ExportRecords
  <2>4. QED
    BY <1>9, <1>p, <2>2, <2>3 DEF WriteFails, Effect, At, DoIncrDrawn, DoInsertUserCoupon, db
<1>10. QED
  BY <1>1, <1>2, <1>3, <1>4, <1>5, <1>6, <1>7, <1>8, <1>9 DEF Step

-----------------------------------------------------------------------------
(***************************************************************************)
(* Rows without a code.                                                    *)
(***************************************************************************)

\* Exported rows have their codes, and as long as nothing failed every other
\* row without one has a worker that is about to set it.
FillerKnown ==
  /\ scene = "export" => BlankRows = {}
  /\ faults = 0 => \A k \in BlankRows : \E w \in Workers : At(w, "fillCode") /\ code[w] = k

LEMMA FillerStep ==
  ASSUME TypeOK, TypeOK', PathOK, CodeOK, FillerKnown, NEW w \in Workers, Step(w),
         scene = "issue", faults' = 0, NEW k \in BlankRows'
  PROVE  \E v \in Workers : At(v, "fillCode")' /\ code'[v] = k
<1>1. PICK x \in Steps : Goto(w, x) /\ Does(w, x)
  BY IssueStep
<1>2. /\ faults = 0 /\ coupon \in Seq(Row) /\ pc \in [Workers -> Steps] /\ user[w] \in Users
      /\ code \in [Workers -> Nat]
  <2>1. faults' >= faults
    BY IssueStep
  <2>2. QED
    BY <2>1 DEF TypeOK
<1>3. CASE Inserts(w, x)
  <2>1. code' = [code EXCEPT ![w] = Len(coupon) + 1] /\ x = "fillCode" /\ BlankRows = {}
    BY <1>3 DEF Inserts, DoInsertCoupon, CodeTaken
  <2>2. [user |-> user[w], coded |-> FALSE] \in Row
    BY <1>2 DEF Row
  <2>3. k = Len(coupon) + 1
    BY <1>2, <1>3, <2>1, <2>2, AppendRow DEF Inserts, DoInsertCoupon, BlankRows
  <2>4. QED
    BY <1>1, <1>2, <2>1, <2>3 DEF At, Goto
<1>4. CASE ~ Inserts(w, x)
  <2>1. code' = code
    BY <1>1, <1>4 DEF Does, Passes, Fills, DoFillCode, Counts, Records
  <2>2. k \in BlankRows /\ (pc[w] = "fillCode" => k # code[w])
    <3>1. CASE Fills(w, x)
      <4>1. code[w] \in DOMAIN coupon /\ code[w] \in Nat
        BY <1>2, <3>1 DEF CodeOK, Fills, Drawing
      <4>2. QED
        BY <1>2, <3>1, <4>1, WithCodeType DEF Fills, DoFillCode, BlankRows
    <3>2. CASE UNCHANGED coupon /\ pc[w] # "fillCode"
      BY <3>2 DEF BlankRows
    <3>3. CASE x = "abort" /\ faults' > 0
      BY <3>3
    <3>4. QED
      BY <1>1, <1>4, <3>1, <3>2, <3>3
      DEF Does, Passes, Counts, Records, Before, Checks
  <2>3. PICK v \in Workers : At(v, "fillCode") /\ code[v] = k
    BY <1>2, <2>2 DEF FillerKnown
  <2>4. v # w
    BY <2>2, <2>3 DEF At
  <2>5. QED
    BY <1>1, <1>2, <2>1, <2>3, <2>4 DEF At, Goto
<1>5. QED
  BY <1>3, <1>4

LEMMA FillerNext ==
  TypeOK /\ TypeOK' /\ PathOK /\ CodeOK /\ FillerKnown /\ [Next]_vars => FillerKnown'
<1> SUFFICES ASSUME TypeOK, TypeOK', PathOK, CodeOK, FillerKnown, [Next]_vars
             PROVE  FillerKnown'
  OBVIOUS
<1>t. /\ coupon \in Seq(Row) /\ faults \in Nat /\ faults' \in Nat /\ scene' = scene
      /\ scene \in {"issue", "export"} /\ pc \in [Workers -> Steps]
  BY SceneRigid, DrawAssumption DEF TypeOK
<1>1. CASE \E w \in Workers : Step(w)
  <2>1. PICK w \in Workers : Step(w)
    BY <1>1
  <2>2. CASE scene = "issue"
    BY <1>t, <2>1, <2>2, FillerStep DEF FillerKnown
  <2>3. CASE scene = "export"
    <3>1. coupon' \in {coupon, WithUser(w)}
      BY <2>1, <2>3, ExportStep DEF Claims, ExportRecords, ExportPasses
    <3>2. \A c \in DOMAIN coupon : DOMAIN WithUser(w) = DOMAIN coupon
            /\ WithUser(w)[c].coded = coupon[c].coded
      <4>1. \A c \in DOMAIN coupon : coupon[c] \in Row
        BY <1>t
      <4>2. QED
        BY <4>1 DEF WithUser, Row
    <3>3. DOMAIN WithUser(w) = DOMAIN coupon
      BY DEF WithUser
    <3>4. BlankRows' = {}
      BY <2>3, <3>1, <3>2, <3>3 DEF BlankRows, FillerKnown
    <3>5. QED
      BY <1>t, <2>3, <3>4 DEF FillerKnown
  <2>4. QED
    BY <1>t, <2>2, <2>3
<1>2. CASE ~ \E w \in Workers : Step(w)
  <2>1. BlankRows' = BlankRows /\ faults' >= faults
    BY <1>2, OtherStep DEF BlankRows
  <2>2. ASSUME faults' = 0, NEW k \in BlankRows
        PROVE  \E v \in Workers : At(v, "fillCode")' /\ code'[v] = k
    <3>1. PICK v \in Workers : At(v, "fillCode") /\ code[v] = k
      BY <1>t, <2>1, <2>2 DEF FillerKnown
    <3>2. code \in [Workers -> Nat]
      BY DEF TypeOK
    <3>3. pc'[v] = "fillCode" /\ code'[v] = k
      BY <1>2, <1>t, <2>2, <3>1, <3>2, OtherStep DEF At, Goto
    <3>4. QED
      BY <3>3 DEF At
  <2>3. QED
    BY <1>t, <2>1, <2>2 DEF FillerKnown
<1>3. QED
  BY <1>1, <1>2

LEMMA FillerInit == Init => FillerKnown
  BY DEF Init, FillerKnown, BlankRows

\* As long as no statement fails no row stays without its code.
THEOREM WedgeNeedsFault == Spec => []NeverWedged
<1> DEFINE I == TypeOK /\ PathOK /\ CodeOK /\ FillerKnown
<1>1. Init => I
  BY InitType, PathInit, CodeInit, FillerInit
<1>2. I /\ [Next]_vars => I'
  BY NextType, PathStep, CodeNext, FillerNext
<1>3. I => NeverWedged
  BY DEF FillerKnown, NeverWedged, Wedged
<1> HIDE DEF I
<1>4. QED
  BY <1>1, <1>2, <1>3, PTL DEF Spec

LEMMA WedgeStep ==
  ASSUME TypeOK, PathOK, CodeOK, FillerKnown, [Next]_vars, Wedged
  PROVE  Wedged' /\ Len(coupon') = Len(coupon)
<1>1. PICK k \in BlankRows : \A w \in Workers : At(w, "fillCode") => code[w] # k
  BY DEF Wedged
<1>t. /\ coupon \in Seq(Row) /\ pc \in [Workers -> Steps] /\ code \in [Workers -> Nat]
      /\ scene = "issue"
  BY <1>1, DrawAssumption DEF TypeOK, FillerKnown
<1>2. SUFFICES /\ k \in BlankRows' /\ Len(coupon') = Len(coupon)
               /\ \A w \in Workers : pc'[w] = "fillCode" => pc[w] = "fillCode" /\ code'[w] = code[w]
  BY <1>1 DEF Wedged, At
<1>3. ASSUME NEW w \in Workers, Step(w)
      PROVE  /\ k \in BlankRows' /\ Len(coupon') = Len(coupon)
             /\ \A v \in Workers : pc'[v] = "fillCode" => pc[v] = "fillCode" /\ code'[v] = code[v]
  <2>1. PICK x \in Steps : Goto(w, x) /\ Does(w, x)
    BY <1>3, <1>t, IssueStep
  <2>2. ~ Inserts(w, x)
    BY <1>1 DEF Inserts, DoInsertCoupon, CodeTaken
  <2>3. code' = code /\ x # "fillCode"
    BY <2>1, <2>2 DEF Does, Passes, Fills, DoFillCode, Counts, Records, Before, Checks
  <2>4. \A v \in Workers : pc'[v] = "fillCode" => pc[v] = "fillCode"
    BY <1>t, <2>1, <2>3 DEF Goto
  <2>5. CASE UNCHANGED coupon
    BY <2>3, <2>4, <2>5 DEF BlankRows
  <2>6. CASE Fills(w, x)
    <3>1. code[w] # k /\ coupon' = WithCode(code[w])
      BY <1>1, <2>6 DEF Fills, DoFillCode, At
    <3>2. k \in DOMAIN coupon /\ coupon'[k] = coupon[k] /\ DOMAIN coupon' = DOMAIN coupon
      BY <3>1 DEF WithCode, BlankRows
    <3>3. Len(coupon') = Len(coupon)
      BY <1>t, <3>1, WithCodeType
    <3>4. QED
      BY <2>3, <2>4, <3>2, <3>3 DEF BlankRows
  <2>7. QED
    BY <2>1, <2>2, <2>5, <2>6 DEF Does, Passes, Counts, Records
<1>4. CASE ~ \E w \in Workers : Step(w)
  BY <1>4, <1>t, OtherStep DEF BlankRows, At, Goto
<1>5. QED
  BY <1>3, <1>4

\* Once a row has been left without its code the group never issues again.
THEOREM WedgeStays == Spec => WedgeIsPermanent
<1> DEFINE I == TypeOK /\ PathOK /\ CodeOK /\ FillerKnown
<1>1. Init => I
  BY InitType, PathInit, CodeInit, FillerInit
<1>2. I /\ [Next]_vars => I'
  BY NextType, PathStep, CodeNext, FillerNext
<1>3. I /\ [Next]_vars => (Wedged => Wedged' /\ Len(coupon') = Len(coupon))
  BY WedgeStep
<1> HIDE DEF I
<1>4. QED
  BY <1>1, <1>2, <1>3, PTL DEF Spec, WedgeIsPermanent

-----------------------------------------------------------------------------
(***************************************************************************)
(* Owners are recorded.                                                    *)
(***************************************************************************)

\* The workers that are on their way to record a coupon.
Recorder(w) == pc[w] \in IF scene = "issue" THEN Drawing ELSE {"insertUserCoupon"}

\* Coupon k is in coupon_usercoupons as u's, or a worker is about to put it there.
InHand(u, k) ==
  \/ \E j \in DOMAIN userCoupons : userCoupons[j] = [user |-> u, coupon |-> k]
  \/ \E w \in Workers : Recorder(w) /\ user[w] = u /\ code[w] = k

Recorded ==
  faults = 0 => \A k \in DOMAIN coupon : coupon[k].user # NoUser => InHand(coupon[k].user, k)

\* What is recorded stays recorded, whatever a worker does without a failure.
LEMMA InHandStep ==
  ASSUME TypeOK, PathOK, NEW w \in Workers, Step(w), faults' = 0, NEW u, NEW k, InHand(u, k)
  PROVE  InHand(u, k)'
<1>t. /\ userCoupons \in Seq(UserCoupon) /\ pc \in [Workers -> Steps] /\ scene' = scene
      /\ scene \in {"issue", "export"} /\ code \in [Workers -> Nat]
      /\ UserCouponRow(w) \in UserCoupon
  BY SceneStep, DrawAssumption DEF TypeOK, UserCouponRow, UserCoupon
\* Rows are only added; the row a worker was about to add is added when it is done.
<1>1. /\ UNCHANGED user
      /\ userCoupons' = userCoupons \/ userCoupons' = Append(userCoupons, UserCouponRow(w))
      /\ \A v \in Workers : v # w => pc'[v] = pc[v] /\ code'[v] = code[v]
      /\ Recorder(w) => \/ userCoupons' = Append(userCoupons, UserCouponRow(w))
                        \/ Recorder(w)' /\ code'[w] = code[w]
  <2>1. CASE scene = "issue"
    <3>1. PICK x \in Steps : Goto(w, x) /\ Does(w, x)
      BY <2>1, IssueStep
    <3>2. pc'[w] = x /\ \A v \in Workers : v # w => pc'[v] = pc[v]
      BY <1>t, <3>1 DEF Goto
    <3>3. UNCHANGED user
      BY <2>1, IssueStep
    <3>4. QED
      BY <1>t, <2>1, <3>1, <3>2, <3>3 DEF Does, Passes, Inserts, DoInsertCoupon, Fills, DoFillCode,
         Counts, Records, Recorder, Drawing, Before, Checks
  <2>2. CASE scene = "export"
    <3>1. PICK x : Goto(w, x) /\ (Claims(w, x) \/ ExportRecords(w, x) \/ ExportPasses(w, x))
      BY <2>2, ExportStep
    <3>2. pc'[w] = x /\ \A v \in Workers : v # w => pc'[v] = pc[v]
      BY <1>t, <3>1 DEF Goto
    <3>3. UNCHANGED <<user, code>>
      BY <2>2, ExportStep
    <3>4. QED
      BY <1>t, <2>2, <3>1, <3>2, <3>3 DEF Claims, ExportRecords, ExportPasses, Recorder
  <2>3. QED
    BY <1>t, <2>1, <2>2
<1>2. /\ \A j \in DOMAIN userCoupons : j \in DOMAIN userCoupons' /\ userCoupons'[j] = userCoupons[j]
      /\ userCoupons' = Append(userCoupons, UserCouponRow(w)) =>
           \E j \in DOMAIN userCoupons' : userCoupons'[j] = UserCouponRow(w)
  BY <1>1, <1>t, AppendRow
<1>3. CASE \E j \in DOMAIN userCoupons : userCoupons[j] = [user |-> u, coupon |-> k]
  BY <1>2, <1>3 DEF InHand
<1>4. ASSUME NEW v \in Workers, Recorder(v), user[v] = u, code[v] = k
      PROVE  InHand(u, k)'
  <2>1. CASE Recorder(v)' /\ code'[v] = k
    BY <1>1, <1>4, <2>1 DEF InHand
  <2>2. CASE v = w /\ userCoupons' = Append(userCoupons, UserCouponRow(w))
    BY <1>2, <1>4, <2>2 DEF InHand, UserCouponRow
  <2>3. v # w => Recorder(v)' /\ code'[v] = k
    BY <1>1, <1>4, <1>t DEF Recorder
  <2>4. QED
    BY <1>1, <1>4, <2>1, <2>2, <2>3
<1>5. QED
  BY <1>3, <1>4 DEF InHand

LEMMA RecordedStep ==
  ASSUME TypeOK, PathOK, CodeOK, Recorded, NEW w \in Workers, Step(w), faults = 0, faults' = 0,
         NEW k \in DOMAIN coupon', coupon'[k].user # NoUser
  PROVE  InHand(coupon[k].user, k)'
<1>t. /\ coupon \in Seq(Row) /\ pc \in [Workers -> Steps] /\ code \in [Workers -> Nat]
      /\ scene' = scene /\ scene \in {"issue", "export"} /\ user[w] \in Users
  BY SceneStep, DrawAssumption DEF TypeOK
<1>1. CASE k \in DOMAIN coupon /\ coupon'[k].user = coupon[k].user
  <2>1. ASSUME NEW u, u = coupon[k].user
        PROVE  InHand(u, k)'
    BY <1>1, <2>1, InHandStep DEF Recorded
  <2>2. QED
    BY <1>1, <2>1 DEF InHand
<1>2. CASE Recorder(w)' /\ user'[w] = coupon'[k].user /\ code'[w] = k
  BY <1>2 DEF InHand
<1>3. CASE scene = "issue"
  <2>1. PICK x \in Steps : Goto(w, x) /\ Does(w, x)
    BY <1>3, IssueStep
  <2>2. pc'[w] = x /\ UNCHANGED user
    BY <1>3, <1>t, <2>1, IssueStep DEF Goto
  <2>3. CASE Inserts(w, x)
    <3>1. [user |-> user[w], coded |-> FALSE] \in Row
      BY <1>t DEF Row
    <3>2. \/ k \in DOMAIN coupon /\ coupon'[k].user = coupon[k].user
          \/ k = Len(coupon) + 1 /\ coupon'[k].user = user[w]
      BY <1>t, <2>3, <3>1, AppendRow DEF Inserts, DoInsertCoupon
    <3>3. x = "fillCode" /\ code'[w] = Len(coupon) + 1
      BY <1>t, <2>3 DEF Inserts, DoInsertCoupon
    <3>4. QED
      BY <1>1, <1>2, <1>3, <1>t, <2>2, <3>2, <3>3 DEF Recorder, Drawing
  <2>4. CASE ~ Inserts(w, x)
    <3>1. DOMAIN coupon' = DOMAIN coupon
      BY <1>t, <2>1, <2>4, WithCodeType
      DEF Does, Passes, Fills, DoFillCode, Counts, Records
    <3>2. Grown
      BY <2>1, DoesGrow
    <3>3. QED
      BY <1>1, <3>1, <3>2 DEF Grown
  <2>5. QED
    BY <2>3, <2>4
<1>4. CASE scene = "export"
  <2>1. PICK x : Goto(w, x) /\ (Claims(w, x) \/ ExportRecords(w, x) \/ ExportPasses(w, x))
    BY <1>4, ExportStep
  <2>2. pc'[w] = x /\ UNCHANGED <<user, code>>
    BY <1>4, <1>t, <2>1, ExportStep DEF Goto
  <2>3. CASE UNCHANGED coupon
    BY <1>1, <2>3
  <2>4. CASE Claims(w, x)
    <3>1. x = "insertUserCoupon" /\ coupon' = WithUser(w)
      BY <2>4 DEF Claims
    <3>2. k \in DOMAIN coupon /\ (k # code[w] => coupon'[k].user = coupon[k].user)
                              /\ (k = code[w] => coupon'[k].user = user[w])
      BY <1>t, <3>1, WithUserType
    <3>3. QED
      BY <1>1, <1>2, <1>4, <1>t, <2>2, <3>1, <3>2 DEF Recorder
  <2>5. QED
    BY <2>1, <2>3, <2>4 DEF ExportRecords, ExportPasses
<1>5. QED
  BY <1>3, <1>4, <1>t

LEMMA RecordedNext ==
  TypeOK /\ TypeOK' /\ PathOK /\ CodeOK /\ Recorded /\ [Next]_vars => Recorded'
<1> SUFFICES ASSUME TypeOK, TypeOK', PathOK, CodeOK, Recorded, [Next]_vars, faults' = 0,
                    NEW k \in DOMAIN coupon', coupon'[k].user # NoUser
             PROVE  InHand(coupon[k].user, k)'
  BY DEF Recorded
<1>t. /\ faults \in Nat /\ pc \in [Workers -> Steps] /\ code \in [Workers -> Nat]
      /\ user \in [Workers -> Users]
  BY DEF TypeOK
<1>1. ASSUME NEW w \in Workers, Step(w)
      PROVE  InHand(coupon[k].user, k)'
  <2>1. faults' >= faults
    BY <1>1, DrawAssumption, IssueStep, ExportStep DEF TypeOK
  <2>2. QED
    BY <1>1, <1>t, <2>1, RecordedStep
<1>2. CASE ~ \E w \in Workers : Step(w)
  <2>1. UNCHANGED <<scene, coupon, userCoupons>> /\ faults = 0
    BY <1>2, <1>t, OtherStep
  <2>2. InHand(coupon[k].user, k)
    BY <2>1 DEF Recorded
  <2>3. \A v \in Workers : Recorder(v) =>
          pc'[v] = pc[v] /\ user'[v] = user[v] /\ code'[v] = code[v]
    BY <1>2, <1>t, OtherStep DEF At, Goto, Recorder, Drawing
  <2>4. \A v \in Workers : Recorder(v) =>
          Recorder(v)' /\ user'[v] = user[v] /\ code'[v] = code[v]
    BY <2>1, <2>3 DEF Recorder
  <2>5. QED
    BY <2>1, <2>2, <2>4 DEF InHand
<1>3. QED
  BY <1>1, <1>2

LEMMA RecordedInit == Init => Recorded
<1> SUFFICES ASSUME Init PROVE \A k \in DOMAIN coupon : coupon[k].user = NoUser
  BY DEF Recorded
<1>1. QED
  BY DEF Init

\* Whoever owns a coupon has it in coupon_usercoupons or is about to get it.
THEOREM OwnersRecorded == Spec => []OwnerRecorded
<1> DEFINE I == TypeOK /\ PathOK /\ CodeOK /\ Recorded
<1>1. Init => I
  BY InitType, PathInit, CodeInit, RecordedInit
<1>2. I /\ [Next]_vars => I'
  BY NextType, PathStep, CodeNext, RecordedNext
<1>3. I => OwnerRecorded
  BY DEF Recorded, InHand, Recorder, Drawing, OwnerRecorded
<1> HIDE DEF I
<1>4. QED
  BY <1>1, <1>2, <1>3, PTL DEF Spec

-----------------------------------------------------------------------------
(***************************************************************************)
(* The three counts of issued coupons, scene "issue".                      *)
(***************************************************************************)

\* Every row is inserted with its user.
AllDrawn == scene = "issue" => \A k \in DOMAIN coupon : coupon[k].user # NoUser

LEMMA AllDrawnNext == TypeOK /\ PathOK /\ AllDrawn /\ [Next]_vars => AllDrawn'
<1> SUFFICES ASSUME TypeOK, PathOK, AllDrawn, [Next]_vars, scene = "issue",
                    NEW k \in DOMAIN coupon'
             PROVE  coupon'[k].user # NoUser
  BY SceneRigid DEF AllDrawn
<1>1. Grown
  BY NextGrows
<1>2. CASE k \in DOMAIN coupon
  BY <1>1, <1>2 DEF AllDrawn, Grown
<1>3. CASE k \notin DOMAIN coupon
  <2>1. PICK w \in Workers : Step(w)
    BY <1>3, OtherStep
  <2>2. PICK x \in Steps : Does(w, x)
    BY <2>1, IssueStep
  <2>3. coupon \in Seq(Row) /\ user[w] \in Users /\ code[w] \in Nat
    BY DEF TypeOK
  <2>4. Inserts(w, x)
    BY <1>3, <2>2, <2>3, WithCodeType DEF Does, Passes, Fills, DoFillCode, Counts, Records
  <2>5. [user |-> user[w], coded |-> FALSE] \in Row
    BY <2>3 DEF Row
  <2>6. k = Len(coupon) + 1 /\ coupon'[k].user = user[w]
    BY <1>3, <2>3, <2>4, <2>5, AppendRow DEF Inserts, DoInsertCoupon
  <2>7. QED
    BY <2>3, <2>6, DrawAssumption
<1>4. QED
  BY <1>2, <1>3

LEMMA AllIssued ==
  ASSUME TypeOK, AllDrawn, scene = "issue"
  PROVE  Drawn = 1..Len(coupon) /\ Issued = Len(coupon)
<1>1. coupon \in Seq(Row) /\ Len(coupon) \in Nat
  BY DEF TypeOK
<1>2. Drawn = 1..Len(coupon)
  BY <1>1 DEF AllDrawn, Drawn
<1>3. Cardinality(1..Len(coupon)) = Len(coupon)
  BY <1>1, FS_Interval
<1>4. QED
  BY <1>2, <1>3 DEF Issued, Drawn

\* The workers with a coupon that is not counted yet, or counted and not recorded.
Uncounted  == {w \in Workers : pc[w] \in {"fillCode", "incrDrawn"}}
Unrecorded == {w \in Workers : pc[w] = "insertUserCoupon"}

Counted ==
  scene = "issue" /\ faults = 0 =>
    /\ Len(coupon) = drawn_count + Cardinality(Uncounted)
    /\ drawn_count = Len(userCoupons) + Cardinality(Unrecorded)

LEMMA CountingFinite ==
  /\ IsFiniteSet(Uncounted) /\ Cardinality(Uncounted) \in Nat
  /\ IsFiniteSet(Unrecorded) /\ Cardinality(Unrecorded) \in Nat
  BY DrawAssumption, FS_Subset, FS_CardinalityType DEF Uncounted, Unrecorded

LEMMA CountedStep ==
  ASSUME TypeOK, TypeOK', PathOK, Counted, NEW w \in Workers, Step(w),
         scene = "issue", faults = 0, faults' = 0
  PROVE  Counted'
<1>1. PICK x \in Steps : Goto(w, x) /\ Does(w, x)
  BY IssueStep
<1>2. /\ coupon \in Seq(Row) /\ userCoupons \in Seq(UserCoupon) /\ drawn_count \in Nat
      /\ pc \in [Workers -> Steps] /\ scene' = "issue" /\ UserCouponRow(w) \in UserCoupon
      /\ code[w] \in Nat
  BY SceneStep DEF TypeOK, UserCouponRow, UserCoupon
<1>3. /\ Uncounted' = IF x \in {"fillCode", "incrDrawn"} THEN Uncounted \cup {w}
                                                         ELSE Uncounted \ {w}
      /\ Unrecorded' = IF x = "insertUserCoupon" THEN Unrecorded \cup {w} ELSE Unrecorded \ {w}
      /\ w \in Uncounted <=> pc[w] \in {"fillCode", "incrDrawn"}
      /\ w \in Unrecorded <=> pc[w] = "insertUserCoupon"
  BY <1>1, <1>2 DEF Goto, Uncounted, Unrecorded
<1>4. /\ Cardinality(Uncounted \cup {w}) = IF w \in Uncounted THEN Cardinality(Uncounted)
                                                              ELSE Cardinality(Uncounted) + 1
      /\ Cardinality(Uncounted \ {w}) = IF w \in Uncounted THEN Cardinality(Uncounted) - 1
                                                           ELSE Cardinality(Uncounted)
      /\ Cardinality(Unrecorded \cup {w}) = IF w \in Unrecorded THEN Cardinality(Unrecorded)
                                                                ELSE Cardinality(Unrecorded) + 1
      /\ Cardinality(Unrecorded \ {w}) = IF w \in Unrecorded THEN Cardinality(Unrecorded) - 1
                                                             ELSE Cardinality(Unrecorded)
  BY CountingFinite, FS_AddElement, FS_RemoveElement
<1>5. /\ Len(coupon) = drawn_count + Cardinality(Uncounted)
      /\ drawn_count = Len(userCoupons) + Cardinality(Unrecorded)
  BY DEF Counted
<1>6. SUFFICES /\ Len(coupon') = drawn_count' + Cardinality(Uncounted')
               /\ drawn_count' = Len(userCoupons') + Cardinality(Unrecorded')
  BY DEF Counted
<1> USE CountingFinite
<1>7. CASE Inserts(w, x)
  <2>1. x = "fillCode" /\ pc[w] = "insertCoupon" /\ UNCHANGED <<drawn_count, userCoupons>>
    BY <1>7 DEF Inserts, DoInsertCoupon
  <2>2. Len(coupon') = Len(coupon) + 1
    BY <1>2, <1>7 DEF Inserts, DoInsertCoupon
  <2>3. QED
    BY <1>2, <1>3, <1>4, <1>5, <2>1, <2>2
<1>8. CASE Fills(w, x)
  <2>1. x = "incrDrawn" /\ pc[w] = "fillCode" /\ UNCHANGED <<drawn_count, userCoupons>>
    BY <1>8 DEF Fills, DoFillCode
  <2>2. Len(coupon') = Len(coupon)
    BY <1>2, <1>8, WithCodeType DEF Fills, DoFillCode
  <2>3. QED
    BY <1>2, <1>3, <1>4, <1>5, <2>1, <2>2
<1>9. CASE Counts(w, x)
  <2>1. /\ x = "insertUserCoupon" /\ pc[w] = "incrDrawn" /\ UNCHANGED <<coupon, userCoupons>>
        /\ drawn_count' = drawn_count + 1
    BY <1>9 DEF Counts
  <2>2. QED
    BY <1>2, <1>3, <1>4, <1>5, <2>1
<1>10. CASE Records(w, x)
  <2>1. x = "unlock" /\ pc[w] = "insertUserCoupon" /\ UNCHANGED <<coupon, drawn_count>>
    BY <1>10 DEF Records
  <2>2. Len(userCoupons') = Len(userCoupons) + 1
    BY <1>2, <1>10, AppendRow DEF Records
  <2>3. QED
    BY <1>2, <1>3, <1>4, <1>5, <2>1, <2>2
<1>11. CASE Passes(w, x)
  <2>1. /\ UNCHANGED <<coupon, drawn_count, userCoupons>>
        /\ x \notin {"fillCode", "incrDrawn", "insertUserCoupon"}
        /\ pc[w] \notin {"fillCode", "incrDrawn", "insertUserCoupon"}
    BY <1>11 DEF Passes, Before, Checks
  <2>2. QED
    BY <1>3, <1>4, <1>5, <2>1
<1>12. QED
  BY <1>1, <1>7, <1>8, <1>9, <1>10, <1>11 DEF Does

LEMMA CountedNext == TypeOK /\ TypeOK' /\ PathOK /\ Counted /\ [Next]_vars => Counted'
<1> SUFFICES ASSUME TypeOK, TypeOK', PathOK, Counted, [Next]_vars, scene = "issue", faults' = 0
             PROVE  Counted'
  BY SceneRigid DEF Counted
<1>1. faults = 0
  BY NextGrows DEF TypeOK
<1>2. CASE \E w \in Workers : Step(w)
  BY <1>1, <1>2, CountedStep
<1>3. CASE ~ \E w \in Workers : Step(w)
  <2>1. Uncounted' = Uncounted /\ Unrecorded' = Unrecorded
    <3>1. pc \in [Workers -> Steps]
      BY DEF TypeOK
    <3>2. \A v \in Workers : pc'[v] = pc[v] \/ (pc[v] = "idle" /\ pc'[v] = "countReal")
      BY <1>3, <3>1, OtherStep DEF At, Goto
    <3>3. QED
      BY <3>2 DEF Uncounted, Unrecorded
  <2>2. QED
    BY <1>1, <1>3, <2>1, OtherStep DEF Counted
<1>4. QED
  BY <1>2, <1>3

LEMMA CountedInit == Init => Counted /\ AllDrawn
<1> SUFFICES ASSUME Init PROVE Counted /\ AllDrawn
  OBVIOUS
<1>1. Uncounted = {} /\ Unrecorded = {}
  BY DEF Init, Uncounted, Unrecorded
<1>2. scene = "issue" => coupon = << >>
  BY DEF Init
<1>3. QED
  BY <1>1, <1>2, FS_EmptySet DEF Init, Counted, AllDrawn

\* The counter of a group never runs ahead of the coupons issued, nor behind the
\* coupons recorded, and they agree when nothing is under way.
THEOREM CountsInOrder == Spec => []CountsAgree
<1> DEFINE I == TypeOK /\ PathOK /\ AllDrawn /\ Counted
<1>1. Init => I
  BY InitType, PathInit, CountedInit
<1>2. I /\ [Next]_vars => I'
  BY NextType, PathStep, AllDrawnNext, CountedNext
<1>3. I => CountsAgree
  <2> SUFFICES ASSUME I, scene = "issue", faults = 0
               PROVE  /\ Len(userCoupons) <= drawn_count
                      /\ drawn_count <= Issued
                      /\ Quiescent => Len(userCoupons) = Issued
    BY DEF CountsAgree
  <2>1. /\ Issued = drawn_count + Cardinality(Uncounted)
        /\ drawn_count = Len(userCoupons) + Cardinality(Unrecorded)
        /\ drawn_count \in Nat /\ Len(userCoupons) \in Nat
    BY AllIssued DEF Counted, TypeOK
  <2>2. Quiescent => Uncounted = {} /\ Unrecorded = {}
    BY DEF Quiescent, Uncounted, Unrecorded
  <2>3. QED
    BY <2>1, <2>2, CountingFinite, FS_EmptySet
<1> HIDE DEF I
<1>4. QED
  BY <1>1, <1>2, <1>3, PTL DEF Spec

-----------------------------------------------------------------------------
(***************************************************************************)
(* drawCoupon implements CouponIssue.  Owned(u) are the coupons in the     *)
(* wallet of u there, Kept the wallets of all users together.              *)
(***************************************************************************)

Kept == {userCoupons[k].coupon : k \in DOMAIN userCoupons}
Given == [id \in Promised |-> coupon[id].user]
Owned(u) == Promise!Owned(u)

\* What the tables must be like, scene "issue", for their reading as wallets.
Sane == TypeOK /\ PathOK /\ CodeOK /\ Backed /\ AllDrawn

LEMMA SaneNext == Sane /\ [Next]_vars => Sane'
  BY NextType, PathStep, CodeNext, BackedNext, AllDrawnNext DEF Sane

\* Every recorded coupon is in a wallet, that of its owner.
WalletsAgree ==
  /\ Promised = DOMAIN coupon /\ Kept \subseteq DOMAIN coupon
  /\ Promised \cap Kept = Kept
  /\ \A u \in Users : Owned(u) = {c \in Kept : coupon[c].user = u}

LEMMA AllIssuedThen == Sane /\ scene = "issue" => Issued = Len(coupon)
  BY AllIssued DEF Sane

LEMMA Wallets == Sane /\ scene = "issue" => WalletsAgree
<1> SUFFICES ASSUME Sane, scene = "issue" PROVE WalletsAgree
  OBVIOUS
<1>1. Promised = DOMAIN coupon
  BY DEF Sane, AllDrawn, Promised, Drawn
<1>2. Kept \subseteq DOMAIN coupon
  BY DEF Sane, Backed, Kept
<1>3. \A u \in Users : Owned(u) = {c \in Promised \cap Kept : Given[c] = u}
  BY DEF Owned, Promise!Owned, Given, Kept
<1>4. QED
  BY <1>1, <1>2, <1>3 DEF Given, WalletsAgree

\* The rows of a user name all the coupons of his wallet.
LEMMA OwnedFew ==
  ASSUME Sane, scene = "issue", NEW u \in Users
  PROVE  /\ IsFiniteSet(Owned(u)) /\ Cardinality(Owned(u)) \in Nat
         /\ Cardinality(Owned(u)) <= UserCouponsCount(u)
<1> DEFINE f == [k \in Held(u) |-> userCoupons[k].coupon]
<1>a. Owned(u) = {c \in Kept : coupon[c].user = u}
  BY Wallets DEF WalletsAgree
<1>b. ASSUME NEW k \in DOMAIN userCoupons
      PROVE  coupon[userCoupons[k].coupon].user = userCoupons[k].user
  <2>1. coupon[userCoupons[k].coupon] = [user |-> userCoupons[k].user, coded |-> TRUE]
    BY DEF Sane, Backed
  <2>2. QED
    BY <2>1
<1>0. /\ Owned(u) = {c \in Kept : coupon[c].user = u}
      /\ \A k \in DOMAIN userCoupons : coupon[userCoupons[k].coupon].user = userCoupons[k].user
  BY <1>a, <1>b
<1>1. \A k \in Held(u) : userCoupons[k].coupon \in Owned(u)
  BY <1>0 DEF Held, Kept
<1>2. \A c \in Owned(u) : \E k \in Held(u) : userCoupons[k].coupon = c
  BY <1>0 DEF Held, Kept
<1>3. f \in Surjection(Held(u), Owned(u))
  BY <1>1, <1>2 DEF Surjection
<1> HIDE DEF f
<1>4. IsFiniteSet(Held(u)) /\ UserCouponsCount(u) = Cardinality(Held(u))
  BY GrantFinite DEF Sane
<1>5. IsFiniteSet(Owned(u)) /\ Cardinality(Owned(u)) <= Cardinality(Held(u))
  BY <1>3, <1>4, FS_Surjection
<1>6. QED
  BY <1>4, <1>5, FS_CardinalityType

\* A user's coupons and the workers about to add one to his wallet.
WalletClaims ==
  scene = "issue" => \A u \in Users :
    Cardinality(Owned(u)) + Cardinality(Granting(u)) <= can_draw_count.issue + Slack

\* Only a worker that has just tested a user's count may add to his claims.
LEMMA GrantEntry ==
  ASSUME TypeOK, NEW w \in Workers, Step(w), NEW u
  PROVE  \/ Granting(u)' \subseteq Granting(u)
         \/ CheckUser(w) /\ (user[w] # u => Granting(u)' = Granting(u))
<1>0. UNCHANGED user
  BY UserStep
<1>1. CASE BeginSoldOut(w)
  BY <1>0, <1>1 DEF BeginSoldOut, Granting
<1>2. CASE CheckUser(w)
  <2>1. \E x : Goto(w, x)
    BY <1>2 DEF CheckUser
  <2>2. QED
    BY <1>0, <1>2, <2>1, GrantMove
<1>3. CASE \/ CountReal(w) \/ TableMissing(w) \/ CheckList(w) \/ ListUnread(w) \/ Refuse(w)
           \/ Unlock(w) \/ Abort(w) \/ WriteList(w) \/ WriteCache(w) \/ WriteFails(w)
           \/ InsertConflict(w) \/ SetUserUnchanged(w) \/ InsertUserCouponUnnoticed(w)
           \/ InsertUserCoupon(w)
  <2>1. \E x : Goto(w, x) /\ x \notin GrantSteps
    BY <1>3 DEF CountReal, TableMissing, CheckList, ListUnread, Refuse, Unlock, Abort, WriteList,
       WriteCache, WriteFails, InsertConflict, SetUserUnchanged, InsertUserCouponUnnoticed,
       InsertUserCoupon, GrantSteps
  <2>2. QED
    BY <1>0, <2>1, GrantMove
<1>4. CASE \/ FindCoupon(w) \/ AcquireLock(w) \/ InsertCoupon(w) \/ FillCode(w) \/ IncrDrawn(w)
           \/ SetUser(w) \/ WriteRepeated(w)
  <2>1. pc[w] \in GrantSteps /\ \E x : Goto(w, x)
    BY <1>4 DEF FindCoupon, AcquireLock, InsertCoupon, FillCode, IncrDrawn, SetUser, WriteRepeated,
       At, GrantSteps
  <2>2. QED
    BY <1>0, <2>1, GrantMove
<1>5. QED
  BY <1>1, <1>2, <1>3, <1>4 DEF Step

\* What a worker's step does to the wallets: nothing, or it adds one coupon.
LEMMA WalletStep ==
  ASSUME Sane, Sane', scene = "issue", scene' = scene,
         NEW w \in Workers, NEW x, Does(w, x)
  PROVE  \/ Kept' = Kept /\ \A u \in Users : Owned(u)' = Owned(u)
         \/ /\ pc[w] = "insertUserCoupon" /\ x \in {"unlock", "abort"}
            /\ UNCHANGED <<coupon, code>>
            /\ Kept' = Kept \cup {code[w]}
            /\ \A u \in Users : Owned(u)' = IF u = user[w] THEN Owned(u) \cup {code[w]} ELSE Owned(u)
<1>0. (Sane /\ scene = "issue")' => WalletsAgree'
  BY Wallets, PTL
<1>t. /\ userCoupons \in Seq(UserCoupon) /\ UserCouponRow(w) \in UserCoupon
      /\ UserCouponRow(w).coupon = code[w]
  BY DEF Sane, TypeOK, UserCouponRow, UserCoupon
<1>1. Grown /\ WalletsAgree
  BY DoesGrow, Wallets DEF Sane
<1>2. \A u \in Users : Owned(u)' = {c \in Kept' : coupon'[c].user = u}
  BY <1>0 DEF WalletsAgree
<1>3. CASE UNCHANGED userCoupons
  <2>1. Kept' = Kept
    BY <1>3 DEF Kept
  <2>2. ASSUME NEW u \in Users
        PROVE  Owned(u)' = Owned(u)
    <3>1. Owned(u)' = {c \in Kept : coupon'[c].user = u}
      BY <1>2, <2>1
    <3>2. Owned(u) = {c \in Kept : coupon[c].user = u}
      BY <1>1 DEF WalletsAgree
    <3>3. \A c \in Kept : coupon'[c].user = coupon[c].user
      BY <1>1 DEF WalletsAgree, Grown
    <3>4. QED
      BY <3>1, <3>2, <3>3
  <2>3. QED
    BY <2>1, <2>2
<1>4. CASE Records(w, x)
  <2>1. /\ pc[w] = "insertUserCoupon" /\ x \in {"unlock", "abort"}
        /\ UNCHANGED <<coupon, code>>
    BY <1>4 DEF Records
  <2>2. Kept' = Kept \cup {code[w]}
    <3> DEFINE once == Append(userCoupons, UserCouponRow(w))
    <3>1. {once[k].coupon : k \in DOMAIN once} = Kept \cup {code[w]} /\ once \in Seq(UserCoupon)
      BY <1>t, AppendRow DEF Kept
    <3>2. CASE userCoupons' = once
      BY <3>1, <3>2 DEF Kept
    <3>3. CASE userCoupons' = Append(once, UserCouponRow(w))
      <4> HIDE DEF once
      <4>1. {userCoupons'[k].coupon : k \in DOMAIN userCoupons'}
              = {once[k].coupon : k \in DOMAIN once} \cup {code[w]}
        BY <1>t, <3>1, <3>3, AppendRow
      <4>2. QED
        BY <3>1, <4>1 DEF Kept
    <3>4. QED
      BY <1>4, <3>2, <3>3 DEF Records
  <2>3. coupon[code[w]].user = user[w]
    BY <2>1 DEF Sane, CodeOK, Drawing
  <2>4. ASSUME NEW u \in Users
        PROVE  Owned(u)' = IF u = user[w] THEN Owned(u) \cup {code[w]} ELSE Owned(u)
    <3>1. Owned(u)' = {c \in Kept \cup {code[w]} : coupon[c].user = u}
      BY <1>2, <2>1, <2>2
    <3>2. Owned(u) = {c \in Kept : coupon[c].user = u}
      BY <1>1 DEF WalletsAgree
    <3>3. QED
      BY <2>3, <3>1, <3>2
  <2>5. QED
    BY <2>1, <2>2, <2>4
<1>5. QED
  BY <1>3, <1>4 DEF Does, Passes, Inserts, DoInsertCoupon, Fills, DoFillCode, Counts

LEMMA WalletClaimsKeep ==
  ASSUME Sane, Sane', WalletClaims, scene = "issue", scene' = scene, NEW u \in Users,
         Owned(u)' = Owned(u), Granting(u)' \subseteq Granting(u)
  PROVE  Cardinality(Owned(u)') + Cardinality(Granting(u)') <= can_draw_count.issue + Slack
<1>1. /\ Cardinality(Granting(u)') <= Cardinality(Granting(u))
      /\ Cardinality(Granting(u)') \in Nat /\ Cardinality(Granting(u)) \in Nat
  BY GrantFinite, FS_Subset, FS_CardinalityType DEF Sane
<1>2. /\ Cardinality(Owned(u)') = Cardinality(Owned(u)) /\ Cardinality(Owned(u)) \in Nat
      /\ Cardinality(Owned(u)) + Cardinality(Granting(u)) <= can_draw_count.issue + Slack
  BY OwnedFew DEF WalletClaims
<1>3. can_draw_count.issue + Slack \in Int
  BY DrawAssumption, FS_CardinalityType DEF Slack
<1>4. QED
  BY <1>1, <1>2, <1>3

LEMMA WalletClaimsStep ==
  ASSUME Sane, Sane', WalletClaims, scene = "issue", scene' = scene, NEW u \in Users,
         NEW w \in Workers, Step(w)
  PROVE  Cardinality(Owned(u)') + Cardinality(Granting(u)') <= can_draw_count.issue + Slack
<1>1. PICK x \in Steps : Goto(w, x) /\ Does(w, x)
  BY IssueStep DEF Sane
<1>2. UNCHANGED user
  BY UserStep
<1>n. /\ can_draw_count.issue \in Nat /\ Cardinality(Workers) \in Nat
      /\ IsFiniteSet(Granting(u)) /\ Cardinality(Granting(u)) \in Nat
      /\ IsFiniteSet(Owned(u)) /\ Cardinality(Owned(u)) \in Nat
  BY DrawAssumption, FS_CardinalityType, GrantFinite, OwnedFew DEF Sane
<1>3. CASE pc[w] = "insertUserCoupon" /\ user[w] = u /\ x \in {"unlock", "abort"}
           /\ Owned(u)' = Owned(u) \cup {code[w]}
  <2>1. w \in Granting(u) /\ Granting(u)' = Granting(u) \ {w}
    BY <1>1, <1>2, <1>3, GrantMove DEF Granting, GrantSteps, Sane
  <2>2. Cardinality(Granting(u)') = Cardinality(Granting(u)) - 1
    BY <1>n, <2>1, FS_RemoveElement
  <2>3. Cardinality(Owned(u)') <= Cardinality(Owned(u)) + 1 /\ Cardinality(Owned(u)') \in Nat
    <3>1. Cardinality(Owned(u) \cup {code[w]}) \in {Cardinality(Owned(u)), Cardinality(Owned(u)) + 1}
      BY <1>n, FS_AddElement
    <3>2. QED
      BY <1>n, <1>3, <3>1
  <2>4. Cardinality(Owned(u)) + Cardinality(Granting(u)) <= can_draw_count.issue + Slack
    BY DEF WalletClaims
  <2>5. QED
    BY <1>n, <2>2, <2>3, <2>4 DEF Slack
<1>4. CASE Owned(u)' = Owned(u)
  <2>1. CASE Granting(u)' \subseteq Granting(u)
    BY <1>4, <2>1, WalletClaimsKeep
  <2>2. CASE CheckUser(w) /\ user[w] = u
    <3>1. ~ UserCouponsCount(u) >= can_draw_count.issue
      BY <2>2 DEF CheckUser, DrawnAllYouCan
    <3>2. UserCouponsCount(u) \in Nat /\ Cardinality(Owned(u)) <= UserCouponsCount(u)
      BY OwnedFew, GrantFinite DEF Sane
    <3>3. Cardinality(Granting(u)') <= Cardinality(Workers) /\ Cardinality(Granting(u)') \in Nat
      BY FS_Subset, FS_CardinalityType, DrawAssumption DEF Granting
    <3>4. QED
      BY <1>n, <1>4, <3>1, <3>2, <3>3 DEF Slack
  <2>3. QED
    BY <2>1, <2>2, GrantEntry DEF Sane
<1>5. QED
  BY <1>1, <1>3, <1>4, WalletStep

LEMMA WalletClaimsNext == Sane /\ WalletClaims /\ [Next]_vars => WalletClaims'
<1> SUFFICES ASSUME Sane, WalletClaims, [Next]_vars, scene = "issue", NEW u \in Users
             PROVE  Cardinality(Owned(u)') + Cardinality(Granting(u)') <= can_draw_count.issue + Slack
  BY SceneRigid DEF WalletClaims
<1>1. Sane' /\ scene' = scene
  BY SaneNext, SceneRigid
<1>2. CASE \E w \in Workers : Step(w)
  BY <1>1, <1>2, WalletClaimsStep
<1>3. CASE ~ \E w \in Workers : Step(w)
  <2>1. UNCHANGED <<scene, coupon, userCoupons>>
    BY <1>3, OtherStep DEF Sane
  <2>2. Owned(u)' = Owned(u)
    BY <2>1 DEF Owned, Promise!Owned, Promised, Drawn
  <2>3. Granting(u)' \subseteq Granting(u)
    <3>1. \A v \in Workers : pc'[v] \in {"idle", "countReal"} \/ (pc'[v] = pc[v] /\ user'[v] = user[v])
      BY <1>3, OtherStep DEF Sane, TypeOK, Goto
    <3>2. QED
      BY <3>1 DEF Granting, GrantSteps
  <2>4. QED
    BY <1>1, <2>2, <2>3, WalletClaimsKeep
<1>4. QED
  BY <1>2, <1>3

LEMMA WalletsInit == Init => Sane /\ WalletClaims
<1> SUFFICES ASSUME Init PROVE Sane /\ WalletClaims
  OBVIOUS
<1>1. Sane
  <2>1. Backed
    BY DEF Init, Backed
  <2>2. QED
    BY <2>1, InitType, PathInit, CodeInit, CountedInit DEF Sane
<1>2. ASSUME scene = "issue", NEW u \in Users
      PROVE  Cardinality(Owned(u)) + Cardinality(Granting(u)) <= can_draw_count.issue + Slack
  <2>1. Kept = {} /\ Granting(u) = {}
    BY DEF Init, Kept, Granting, GrantSteps
  <2>2. Owned(u) = {}
    BY <1>1, <1>2, <2>1, Wallets DEF WalletsAgree
  <2>3. Cardinality(Workers) \in Nat /\ Cardinality(Workers) # 0
    BY DrawAssumption, FS_CardinalityType, FS_EmptySet
  <2>4. QED
    BY <2>1, <2>2, <2>3, FS_EmptySet, DrawAssumption DEF Slack
<1>3. QED
  BY <1>1, <1>2 DEF WalletClaims

-----------------------------------------------------------------------------
(***************************************************************************)
(* The steps of CouponIssue, read in the tables.                           *)
(***************************************************************************)

LEMMA SameCardinality == \A S : Promise!Cardinality(S) = Cardinality(S)
  BY DEF Promise!Cardinality, Cardinality

LEMMA IntervalSize == \A n \in Nat : Cardinality(1..n) = n
  BY FS_Interval

PromiseUnchanged == UNCHANGED <<Given, Promised \cap Kept>>

LEMMA IssueIsNext ==
  ASSUME NEW c \in 1..(max_count + Slack), NEW u \in Users, Promise!Issue(c, u)
  PROVE  Promise!Next
  BY Zenon DEF Promise!Next, Promise!Issue

LEMMA DepositIsNext ==
  ASSUME NEW c \in DOMAIN Given, Promise!Deposit(c)
  PROVE  Promise!Next
  BY Zenon DEF Promise!Next, Promise!Deposit, Given

\* A worker's step gives out a coupon, puts one into a wallet, or does neither.
LEMMA PromiseStep ==
  ASSUME Sane, Sane', WalletClaims, OverIssueBounded', scene = "issue", scene' = scene,
         NEW w \in Workers, Step(w)
  PROVE  Promise!Next \/ PromiseUnchanged
<1>1. PICK x \in Steps : Goto(w, x) /\ Does(w, x)
  BY IssueStep DEF Sane
<1>t. /\ coupon \in Seq(Row) /\ Len(coupon) \in Nat /\ user[w] \in Users /\ code[w] \in Nat
  BY DEF Sane, TypeOK
<1>a. (Sane /\ scene = "issue")' => WalletsAgree'
  BY Wallets, PTL
<1>b. WalletsAgree /\ WalletsAgree'
  BY <1>a, Wallets
<1>c. /\ Promised = DOMAIN coupon /\ Promised' = DOMAIN coupon'
      /\ Promised \cap Kept = Kept /\ (Promised \cap Kept)' = Kept'
      /\ DOMAIN Given = DOMAIN coupon
      /\ \A k \in DOMAIN coupon : Given[k] = coupon[k].user
      /\ Given' = [k \in DOMAIN coupon' |-> coupon'[k].user]
  BY <1>b DEF WalletsAgree, Given
<1>2. CASE Inserts(w, x)
  <2>0. PICK c \in Nat, u \in Users : c = Len(coupon) + 1 /\ u = user[w]
    BY <1>t
  <2>1. [user |-> user[w], coded |-> FALSE] \in Row
    BY <1>t DEF Row
  <2>2. /\ DOMAIN coupon' = DOMAIN coupon \cup {c} /\ c \notin DOMAIN coupon
        /\ coupon'[c].user = u /\ \A k \in DOMAIN coupon : coupon'[k] = coupon[k]
        /\ Len(coupon') = c /\ Kept' = Kept
    BY <1>t, <1>2, <2>0, <2>1, AppendRow DEF Inserts, DoInsertCoupon, Kept
  <2>3. c <= max_count + Slack
    <3>1. (Sane /\ scene = "issue" => Issued = Len(coupon))'
      BY AllIssuedThen, PTL
    <3>2. QED
      BY <2>2, <3>1 DEF OverIssueBounded
  <2>4. c \in 1..(max_count + Slack) /\ Cardinality(DOMAIN Given) < max_count + Slack
    <3>1. Cardinality(DOMAIN Given) = Len(coupon)
      <4>1. DOMAIN Given = 1..Len(coupon)
        BY <1>c, <1>t
      <4>2. Cardinality(1..Len(coupon)) = Len(coupon)
        BY <1>t, IntervalSize
      <4>3. QED
        BY <4>1, <4>2
    <3>2. max_count + Slack \in Int
      BY DrawAssumption, FS_CardinalityType DEF Slack
    <3>3. QED
      BY <1>t, <2>0, <2>3, <3>1, <3>2
  <2>5. Given' = [d \in DOMAIN Given \cup {c} |-> IF d = c THEN u ELSE Given[d]]
    BY <1>c, <2>2
  <2>6. Promise!Issue(c, u)
    <3>1. c \notin DOMAIN Given
      BY <1>c, <2>2
    <3>2. Promise!Cardinality(DOMAIN Given) < max_count + Slack
      BY <2>4, SameCardinality
    <3>3. (Promised \cap Kept)' = Promised \cap Kept
      BY <1>c, <2>2
    <3>4. QED
      BY <2>5, <3>1, <3>2, <3>3 DEF Promise!Issue, Given, Kept
  <2>7. QED
    BY <2>4, <2>6, IssueIsNext
<1>3. CASE ~ Inserts(w, x)
  <2>1. DOMAIN coupon' = DOMAIN coupon
    BY <1>1, <1>3, <1>t, WithCodeType DEF Does, Passes, Fills, DoFillCode, Counts, Records
  <2>2. Grown
    BY <1>1, DoesGrow DEF Sane
  <2>3. Given' = Given
    BY <1>c, <2>1, <2>2 DEF Grown, Given
  <2>4. CASE Kept' = Kept
    BY <1>c, <2>3, <2>4 DEF PromiseUnchanged
  <2>5. CASE /\ pc[w] = "insertUserCoupon" /\ Kept' = Kept \cup {code[w]} /\ code[w] \notin Kept
    <3>0. PICK c \in Nat : c = code[w]
      BY <1>t
    <3>1. code[w] \in DOMAIN Given /\ Given[code[w]] = user[w]
      BY <1>c, <2>5 DEF Sane, CodeOK, Drawing
    <3>2. Cardinality(Owned(user[w])) < can_draw_count.issue + Slack
      <4>1. w \in Granting(user[w])
        BY <2>5 DEF Granting, GrantSteps
      <4>2. Cardinality(Granting(user[w])) \in Nat /\ Cardinality(Granting(user[w])) # 0
        BY <4>1, GrantFinite, FS_EmptySet, <1>t DEF Sane
      <4>3. /\ Cardinality(Owned(user[w])) \in Nat
            /\ Cardinality(Owned(user[w])) + Cardinality(Granting(user[w]))
                 <= can_draw_count.issue + Slack
        BY <1>t, OwnedFew DEF WalletClaims
      <4>4. can_draw_count.issue + Slack \in Int
        BY DrawAssumption, FS_CardinalityType DEF Slack
      <4>5. QED
        BY <4>2, <4>3, <4>4
    <3>3. Promise!Deposit(c)
      <4>1. Promise!Cardinality(Promise!Owned(Given[c])) < can_draw_count.issue + Slack
        BY <3>0, <3>1, <3>2, SameCardinality DEF Owned
      <4>2. c \in DOMAIN Given \ (Promised \cap Kept)
        BY <1>c, <2>5, <3>0, <3>1
      <4>3. (Promised \cap Kept)' = (Promised \cap Kept) \cup {c}
        BY <1>c, <2>5, <3>0
      <4>4. QED
        BY <2>3, <4>1, <4>2, <4>3 DEF Promise!Deposit, Given, Kept
    <3>4. QED
      BY <3>0, <3>1, <3>3, DepositIsNext
  <2>6. QED
    BY <1>1, <2>4, <2>5, WalletStep
<1>4. QED
  BY <1>2, <1>3

\* So does every other step; in scene "export" nothing is promised.
LEMMA PromiseNext ==
  ASSUME Sane, Sane', WalletClaims, OverIssueBounded', [Next]_vars
  PROVE  Promise!Next \/ PromiseUnchanged
<1>s. scene' = scene
  BY SceneRigid
<1>1. CASE scene # "issue"
  BY <1>1, <1>s DEF PromiseUnchanged, Given, Promised
<1>2. CASE ~ \E w \in Workers : Step(w)
  BY <1>2, OtherStep DEF Sane, PromiseUnchanged, Given, Promised, Drawn, Kept
<1>3. QED
  BY <1>1, <1>2, <1>s, PromiseStep

LEMMA PromiseInit == Init => Promise!Init
<1> SUFFICES ASSUME Init PROVE Given = << >> /\ Promised \cap Kept = {}
  BY DEF Promise!Init, Given, Kept
<1>1. Promised = {} /\ Kept = {}
  BY DEF Init, Promised, Drawn, Kept
<1>2. QED
  BY <1>1 DEF Given

\* drawCoupon implements CouponIssue: whatever fails and however its workers
\* interleave, a coupon is given to one user and stays his, and no more than the
\* limits allow are given out or reach the wallet of one user.
THEOREM DrawImplements == Spec => Implements
<1> DEFINE I == Sane /\ WalletClaims
<1>1. Init => I
  BY WalletsInit
<1>2. I /\ [Next]_vars => I'
  BY SaneNext, WalletClaimsNext
<1>3. I /\ I' /\ OverIssueBounded' /\ [Next]_vars => Promise!Next \/ PromiseUnchanged
  BY PromiseNext
<1>4. Promise!Next \/ PromiseUnchanged <=>
        [Promise!Next]_<<[id \in Promised |-> coupon[id].user],
                         Promised \cap {userCoupons[k].coupon : k \in DOMAIN userCoupons}>>
  BY DEF PromiseUnchanged, Given, Kept
<1> HIDE DEF I
<1>5. QED
  BY <1>1, <1>2, <1>3, <1>4, PromiseInit, OverIssue, PTL DEF Spec, Implements, Promise!Spec

=============================================================================
