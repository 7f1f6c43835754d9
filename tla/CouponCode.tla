----------------------------- MODULE CouponCode -----------------------------
(* The coupon codes and group slugs of CouponCode.h.  A code is eleven        *)
(* letters: four for the group's id and seven for the coupon's id, each a     *)
(* number in base 26.  A part with fewer digits than letters is filled on the *)
(* left: a sentry letter that says how many letters to skip, then random      *)
(* letters.  The coupon's id is multiplied by 100 and given a random          *)
(* remainder first, so that consecutive ids do not give consecutive codes.    *)
(* A slug is the four letters of a group and four random ones.                *)
(*                                                                            *)
(* Letters are numbers, 'a' is 0.  A program makes a word (the admin and      *)
(* export servers do), or a client sends one of its own, and a server reads   *)
(* it.                                                                        *)
EXTENDS Integers, Sequences

CONSTANTS
    GroupIds,       \* group ids asked for
    CouponIds,      \* coupon ids asked for
    Noise,          \* remainders RandomUtil::Random(0, 100) may give
    Fillers,        \* random letters: those at 2 .. 7 of a part
    Typed           \* words a client sends that no server made

ASSUME IdAssumption     == GroupIds \subseteq Nat /\ CouponIds \subseteq Nat
ASSUME RandomAssumption ==
    /\ Noise \subseteq 0 .. 99
    /\ \A filler \in Fillers, j \in 2 .. 7 : filler[j] \in 0 .. 25
ASSUME TypedAssumption  == Typed \subseteq Seq(Int)

VARIABLES
    stage,          \* "blank", "shown" (a word is there) or "read"
    made,           \* what the word was made for, or Nothing
    word,           \* the letters
    result          \* the errno and the two ids the last call gave back

codeVars == <<stage, made, word, result>>

Letters     == 0 .. 25
MaxGroupId  == 300000
MaxCouponId == 10000000
Kinds       == {"code", "slug"}
Errnos      == {"OK", "INVALID_COUPON_GROUP_ID", "INVALID_COUPON_ID",
                "INVALID_COUPON_CODE", "INVALID_COUPON_GROUP_SLUG"}

Nothing            == [kind |-> "none", group |-> 0, coupon |-> 0]
Result(err, g, c)  == [err |-> err, group |-> g, coupon |-> c]

-----------------------------------------------------------------------------
(* Numbers and letters.                                                       *)

\* pow(26, k)
Pow26(k) == <<1, 26, 676, 17576, 456976, 11881376, 308915776>>[k + 1]

\* the digits the conversion loop produces; zero has one
FitsIn(n, digits, len) == digits = len \/ n < Pow26(digits)
Needs(n, digits)       == digits = 1 \/ n >= Pow26(digits - 1)
Width(n, len) == CHOOSE d \in 1 .. len : FitsIn(n, d, len) /\ Needs(n, d)

\* to_full_len: the letters that are not digits
Skip(n, len) == len - Width(n, len)
Digit(n, k)  == (n \div Pow26(k)) % 26

\* the sentries: "uvw", "xyz" for a group; "ijklmn", "opqrst", "uvwxyz" for a
\* coupon.  A sentry is one of these letters plus the letters skipped after it.
GroupSentries == {20, 23}
IdSentries    == {8, 14, 20}
Sentry(first, skip) == first + skip - 1

\* n in len letters: a sentry, skip - 1 random letters, the digits
Part(n, len, first, filler) ==
    [j \in 1 .. len |->
        IF j > Skip(n, len) THEN Digit(n, len - j)
        ELSE IF j = 1 THEN Sentry(first, Skip(n, len))
        ELSE filler[j]]

CodeWord(p, q)      == [j \in 1 .. 11 |-> IF j <= 4 THEN p[j] ELSE q[j - 4]]
SlugWord(p, filler) == [j \in 1 .. 8 |-> IF j <= 4 THEN p[j] ELSE filler[j - 1]]

\* mutant: the remainder is drawn from 1 to 100
Scaled_OneToHundred(coupon, noise) == coupon * 100 + noise + 1

Scaled(coupon, noise) == coupon * 100 + noise

\* how many letters Decode skips, from the first letter of a part
SkipsSaidBy(letter, firsts, most) ==
    {s \in 1 .. most : \E first \in firsts : letter = Sentry(first, s)}
SkipSaidBy(letter, firsts, most) ==
    LET skips == SkipsSaidBy(letter, firsts, most)
    IN  IF skips = {} THEN 0 ELSE CHOOSE s \in skips : TRUE

\* the value of the letter at j in a part of len letters
Term(letter, j, len, skip) == IF j > skip THEN letter * Pow26(len - j) ELSE 0

GroupValue(w) ==
    LET s == SkipSaidBy(w[1], GroupSentries, 3)
    IN  Term(w[1], 1, 4, s) + Term(w[2], 2, 4, s)
          + Term(w[3], 3, 4, s) + Term(w[4], 4, 4, s)

IdValue(w) ==
    LET s == SkipSaidBy(w[5], IdSentries, 6)
    IN  Term(w[5], 1, 7, s) + Term(w[6], 2, 7, s) + Term(w[7], 3, 7, s)
          + Term(w[8], 4, 7, s) + Term(w[9], 5, 7, s) + Term(w[10], 6, 7, s)
          + Term(w[11], 7, 7, s)

Valid(w, len) == Len(w) = len /\ \A i \in 1 .. len : w[i] \in Letters

-----------------------------------------------------------------------------
(* Decode and DecodeCouponGroupSlug.  A refused word leaves in the two ids     *)
(* what was computed before the refusal; some callers read them all the same. *)

Decode(w) ==
    LET g == GroupValue(w)
        c == IdValue(w) \div 100
    IN  IF ~Valid(w, 11) THEN Result("INVALID_COUPON_CODE", 0, 0)
        ELSE IF g > MaxGroupId THEN Result("INVALID_COUPON_GROUP_ID", g, 0)
        ELSE IF c > MaxCouponId THEN Result("INVALID_COUPON_ID", g, c)
        ELSE Result("OK", g, c)

DecodeCouponGroupSlug(w) ==
    IF Valid(w, 8) THEN Result("OK", GroupValue(w), 0)
    ELSE Result("INVALID_COUPON_GROUP_SLUG", 0, 0)

-----------------------------------------------------------------------------
CodeInit ==
    /\ stage = "blank"
    /\ made = Nothing
    /\ word = <<>>
    /\ result = Result("OK", 0, 0)

Show(kind, g, c, w) ==
    /\ stage' = "shown"
    /\ made' = [kind |-> kind, group |-> g, coupon |-> c]
    /\ word' = w
    /\ UNCHANGED result

RefuseTo(err) ==
    /\ stage' = "read"
    /\ made' = Nothing
    /\ word' = <<>>
    /\ result' = Result(err, 0, 0)

\* Encode: the group's part, then the coupon's
Encode(g, gs, gfiller, c, noise, cs, cfiller) ==
    /\ stage = "blank"
    /\ g <= MaxGroupId
    /\ c <= MaxCouponId
    /\ Show("code", g, c, CodeWord(Part(g, 4, gs, gfiller),
                                   Part(Scaled(c, noise), 7, cs, cfiller)))

\* GenCouponGroupSlug: the group's part, then four random letters
GenCouponGroupSlug(g, gs, filler) ==
    /\ stage = "blank"
    /\ g <= MaxGroupId
    /\ Show("slug", g, 0, SlugWord(Part(g, 4, gs, filler), filler))

EncodeRefused(g, c) ==
    /\ stage = "blank"
    /\ \/ g > MaxGroupId /\ RefuseTo("INVALID_COUPON_GROUP_ID")
       \/ g <= MaxGroupId /\ c > MaxCouponId /\ RefuseTo("INVALID_COUPON_ID")

SlugRefused(g) ==
    /\ stage = "blank"
    /\ g > MaxGroupId
    /\ RefuseTo("INVALID_COUPON_GROUP_SLUG")

\* a client sends a word of its own
Type(w) ==
    /\ stage = "blank"
    /\ stage' = "shown"
    /\ word' = w
    /\ UNCHANGED <<made, result>>

ReadCode ==
    /\ stage = "shown"
    /\ made.kind # "slug"
    /\ stage' = "read"
    /\ result' = Decode(word)
    /\ UNCHANGED <<made, word>>

ReadSlug ==
    /\ stage = "shown"
    /\ made.kind # "code"
    /\ stage' = "read"
    /\ result' = DecodeCouponGroupSlug(word)
    /\ UNCHANGED <<made, word>>

CodeNext ==
    \/ \E g \in GroupIds, gs \in GroupSentries, filler \in Fillers :
         \/ \E c \in CouponIds, noise \in Noise, cs \in IdSentries, cfiller \in Fillers :
              Encode(g, gs, filler, c, noise, cs, cfiller)
         \/ GenCouponGroupSlug(g, gs, filler)
    \/ \E g \in GroupIds : SlugRefused(g) \/ \E c \in CouponIds : EncodeRefused(g, c)
    \/ \E w \in Typed : Type(w)
    \/ ReadCode
    \/ ReadSlug

CodeSpec == CodeInit /\ [][CodeNext]_codeVars

-----------------------------------------------------------------------------
(* Every word a server makes is made of letters, eleven for a code and eight   *)
(* for a slug, and every call answers an errno and two ids.                   *)
CodeTypeOK ==
    /\ stage \in {"blank", "shown", "read"}
    /\ \/ made = Nothing
       \/ /\ made \in [kind : Kinds, group : 0 .. MaxGroupId, coupon : 0 .. MaxCouponId]
          /\ Valid(word, IF made.kind = "code" THEN 11 ELSE 8)
    /\ result \in [err : Errnos, group : Nat, coupon : Nat]

(* Whatever the random letters, the sentry and the remainder were, reading a  *)
(* code gives back the group and the coupon it was made for, and reading a    *)
(* slug its group (so no two coupons ever share a code: the header's promise  *)
(* of 10,000,000 coupons without a collision).                                *)
RoundTrip ==
    stage = "read" /\ made # Nothing => result = Result("OK", made.group, made.coupon)

=============================================================================
