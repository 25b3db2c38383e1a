---------------------------- MODULE RayMath_proofs ----------------------------
(***************************************************************************)
(* Facts about the fixed-point arithmetic, for every value of the units:   *)
(* what each operator returns, in which direction it errs, and that the    *)
(* two directions the tokens combine undo each other exactly.              *)
(***************************************************************************)
EXTENDS RayMath, WellFoundedInduction, TLAPS

-----------------------------------------------------------------------------
(* A set of numbers that holds zero, and with a number the next, holds all. *)
LEMMA NumberInduction ==
    ASSUME NEW T \in SUBSET Nat, 0 \in T, \A n \in T : n + 1 \in T
    PROVE  T = Nat
<1>1. SUFFICES ASSUME Nat \ T # {} PROVE FALSE
  OBVIOUS
<1>2. PICK n \in Nat \ T : \A m \in Nat \ T : n <= m
  <2>1. Nat \ T \in SUBSET Nat
    OBVIOUS
  <2>2. PICK n \in Nat \ T : \A m \in Nat \ T : <<m, n>> \notin OpToRel(<, Nat)
    BY <1>1, <2>1, NatLessThanWellFounded, WFMin
  <2>3. \A m \in Nat \ T : ~(m < n)
    BY <2>2 DEF OpToRel
  <2>4. QED
    BY <2>3
<1>3. n # 0 /\ n - 1 \in Nat /\ (n - 1) + 1 = n
  BY <1>2
<1>4. n - 1 \in T
  BY <1>2, <1>3
<1>5. QED
  BY <1>2, <1>3, <1>4

(* Division with remainder, as the provers need it spelled out.            *)
LEMMA Division ==
    ASSUME NEW a \in Nat, NEW b \in Nat \ {0}
    PROVE  /\ a \div b \in Nat
           /\ a % b \in Nat
           /\ a % b < b
           /\ a = (b * (a \div b)) + (a % b)
OBVIOUS

(* Products of naturals are naturals.                                      *)
LEMMA ProductNat ==
    ASSUME NEW a \in Nat, NEW b \in Nat
    PROVE  a * b \in Nat
OBVIOUS

(* The three roundings return naturals.                                    *)
LEMMA RoundingTypes ==
    ASSUME NEW a \in Nat, NEW b \in Nat \ {0}
    PROVE  /\ DivFloor(a, b) \in Nat
           /\ DivCeil(a, b) \in Nat
           /\ DivHalfUp(a, b) \in Nat
<1>1. a \div b \in Nat
  BY Division
<1>2. b \div 2 \in Nat
  BY Division
<1>3. (a + (b \div 2)) \div b \in Nat
  <2>1. a + (b \div 2) \in Nat
    BY <1>2
  <2>2. QED
    BY <2>1, Division
<1>4. QED
  BY <1>1, <1>3 DEF DivFloor, DivCeil, DivHalfUp

(* Rounding down lies below the quotient by less than one unit.            *)
LEMMA FloorBounds ==
    ASSUME NEW a \in Nat, NEW b \in Nat \ {0}
    PROVE  /\ b * DivFloor(a, b) <= a
           /\ a < (b * DivFloor(a, b)) + b
<1>1. /\ a \div b \in Nat /\ a % b \in Nat /\ a % b < b
      /\ a = (b * (a \div b)) + (a % b)
  BY Division
<1>2. b * (a \div b) \in Nat
  BY <1>1, ProductNat
<1>3. QED
  BY <1>1, <1>2 DEF DivFloor

(* Rounding up lies above the quotient by less than one unit.              *)
LEMMA CeilBounds ==
    ASSUME NEW a \in Nat, NEW b \in Nat \ {0}
    PROVE  /\ a <= b * DivCeil(a, b)
           /\ b * DivCeil(a, b) < a + b
<1> DEFINE q == a \div b
<1>1. /\ q \in Nat /\ a % b \in Nat /\ a % b < b
      /\ a = (b * q) + (a % b)
  BY Division
<1>2. b * q \in Nat /\ b * (q + 1) = (b * q) + b
  BY <1>1
<1>3. CASE a % b = 0
  BY <1>1, <1>2, <1>3 DEF DivCeil
<1>4. CASE a % b # 0
  <2>1. DivCeil(a, b) = q + 1
    BY <1>4 DEF DivCeil
  <2> HIDE DEF q
  <2>2. QED
    BY <1>1, <1>2, <1>4, <2>1
<1>5. QED
  BY <1>3, <1>4

(* A quotient of something below a multiple is below the multiple, in both *)
(* directions of rounding.                                                 *)
LEMMA QuotientAtMost ==
    ASSUME NEW a \in Nat, NEW b \in Nat \ {0}, NEW q \in Nat, a <= b * q
    PROVE  DivFloor(a, b) <= q /\ DivCeil(a, b) <= q
<1>1. DivFloor(a, b) \in Nat /\ DivCeil(a, b) \in Nat
  BY RoundingTypes
<1>2. b * DivFloor(a, b) <= a /\ b * DivCeil(a, b) < a + b
  BY FloorBounds, CeilBounds
<1>3. DivFloor(a, b) <= q
  <2> DEFINE f == DivFloor(a, b)
  <2>1. f \in Nat /\ b * f <= b * q
    BY <1>1, <1>2
  <2> HIDE DEF f
  <2>2. f <= q
    BY <2>1
  <2>3. QED
    BY <2>2 DEF f
<1>4. DivCeil(a, b) <= q
  <2> DEFINE c == DivCeil(a, b)
  <2>1. c \in Nat /\ b * c < (b * q) + b
    BY <1>1, <1>2
  <2> HIDE DEF c
  <2>2. b * c < b * (q + 1)
    BY <2>1
  <2>3. c <= q
    BY <2>1, <2>2
  <2>4. QED
    BY <2>3 DEF c
<1>5. QED
  BY <1>3, <1>4

(* A quotient of something above a multiple is above the multiple.         *)
LEMMA QuotientAtLeast ==
    ASSUME NEW a \in Nat, NEW b \in Nat \ {0}, NEW q \in Nat, b * q <= a
    PROVE  DivFloor(a, b) >= q /\ DivCeil(a, b) >= q
<1> DEFINE f == DivFloor(a, b)
           c == DivCeil(a, b)
<1>1. f \in Nat /\ c \in Nat
  BY RoundingTypes
<1>2. a < (b * f) + b /\ a <= b * c
  BY FloorBounds, CeilBounds
<1> HIDE DEF f, c
<1>3. f >= q
  <2>1. b * q < b * (f + 1)
    BY <1>1, <1>2
  <2>2. QED
    BY <1>1, <2>1
<1>4. c >= q
  <2>1. b * q <= b * c
    BY <1>1, <1>2
  <2>2. QED
    BY <1>1, <2>1
<1>5. QED
  BY <1>3, <1>4 DEF f, c

-----------------------------------------------------------------------------
(* Every operator of the arithmetic returns a natural number.              *)
LEMMA MultiplyTypes ==
    ASSUME NEW a \in Nat, NEW b \in Nat
    PROVE  /\ rayMul(a, b) \in Nat
           /\ rayMulFloor(a, b) \in Nat
           /\ rayMulCeil(a, b) \in Nat
           /\ percentMul(a, b) \in Nat
           /\ percentMulFloor(a, b) \in Nat
           /\ percentMulCeil(a, b) \in Nat
           /\ ATokenBalance(a, b) \in Nat
           /\ VTokenBalance(a, b) \in Nat
<1>1. a * b \in Nat
  BY ProductNat
<1>2. /\ DivFloor(a * b, RAY) \in Nat
      /\ DivCeil(a * b, RAY) \in Nat
      /\ DivHalfUp(a * b, RAY) \in Nat
  BY <1>1, RoundingTypes, UnitsAssumption
<1>3. /\ DivFloor(a * b, PERCENTAGE_FACTOR) \in Nat
      /\ DivCeil(a * b, PERCENTAGE_FACTOR) \in Nat
      /\ DivHalfUp(a * b, PERCENTAGE_FACTOR) \in Nat
  BY <1>1, RoundingTypes, UnitsAssumption
<1>4. QED
  BY <1>2, <1>3 DEF rayMul, rayMulFloor, rayMulCeil, percentMul, percentMulFloor,
                    percentMulCeil, ATokenBalance, VTokenBalance

(* The divisions by an index or a percentage give naturals.                *)
LEMMA DivideTypes ==
    ASSUME NEW a \in Nat, NEW b \in Nat \ {0}
    PROVE  /\ rayDiv(a, b) \in Nat
           /\ rayDivFloor(a, b) \in Nat
           /\ rayDivCeil(a, b) \in Nat
           /\ percentDivFloor(a, b) \in Nat
           /\ percentDivCeil(a, b) \in Nat
           /\ ATokenMintScaled(a, b) \in Nat
           /\ ATokenBurnScaled(a, b) \in Nat
           /\ ATokenTransferScaled(a, b) \in Nat
           /\ VTokenMintScaled(a, b) \in Nat
           /\ VTokenBurnScaled(a, b) \in Nat
<1>1. a * RAY \in Nat /\ a * PERCENTAGE_FACTOR \in Nat
  BY ProductNat, UnitsAssumption
<1>2. /\ DivFloor(a * RAY, b) \in Nat
      /\ DivCeil(a * RAY, b) \in Nat
      /\ DivHalfUp(a * RAY, b) \in Nat
  BY <1>1, RoundingTypes
<1>3. /\ DivFloor(a * PERCENTAGE_FACTOR, b) \in Nat
      /\ DivCeil(a * PERCENTAGE_FACTOR, b) \in Nat
  BY <1>1, RoundingTypes
<1>4. QED
  BY <1>2, <1>3 DEF rayDiv, rayDivFloor, rayDivCeil, percentDivFloor, percentDivCeil,
                    ATokenMintScaled, ATokenBurnScaled, ATokenTransferScaled,
                    VTokenMintScaled, VTokenBurnScaled

(* Interest is a factor of at least one, and compounding only adds to it.  *)
LEMMA InterestAtLeastOne ==
    ASSUME NEW rate \in Nat, NEW dt \in Nat
    PROVE  /\ LinearInterest(rate, dt) \in Nat
           /\ LinearInterest(rate, dt) >= RAY
           /\ CompoundedInterest(rate, dt) \in Nat
           /\ CompoundedInterest(rate, dt) >= RAY
           /\ CompoundedInterest(rate, dt) >= LinearInterest(rate, dt)
<1> DEFINE one == IF dt > 0 THEN dt - 1 ELSE 0
           two == IF dt > 2 THEN dt - 2 ELSE 0
           p2  == rayMul(rate, rate) \div (SECONDS_PER_YEAR * SECONDS_PER_YEAR)
           p3  == rayMul(p2, rate) \div SECONDS_PER_YEAR
           first == (rate * dt) \div SECONDS_PER_YEAR
           second == (dt * one * p2) \div 2
           third  == (dt * one * two * p3) \div 6
<1>1. first \in Nat
  <2>1. rate * dt \in Nat
    BY ProductNat
  <2>2. QED
    BY <2>1, Division, UnitsAssumption
<1>2. one \in Nat /\ two \in Nat
  OBVIOUS
<1>3. p2 \in Nat
  <2>1. SECONDS_PER_YEAR * SECONDS_PER_YEAR \in Nat \ {0}
    BY UnitsAssumption
  <2>2. rayMul(rate, rate) \in Nat
    BY MultiplyTypes
  <2>3. QED
    BY <2>1, <2>2, Division
<1> HIDE DEF p2
<1>4. p3 \in Nat
  <2>1. rayMul(p2, rate) \in Nat
    BY <1>3, MultiplyTypes
  <2>2. QED
    BY <2>1, Division, UnitsAssumption
<1> HIDE DEF p3, one, two
<1>5. dt * one * p2 \in Nat
  BY <1>2, <1>3, ProductNat
<1>6. dt * one * two * p3 \in Nat
  <2>1. dt * one * two \in Nat
    BY <1>2, ProductNat
  <2>2. QED
    BY <2>1, <1>4, ProductNat
<1>7. second \in Nat /\ third \in Nat
  BY <1>5, <1>6, Division
<1>8. LinearInterest(rate, dt) = RAY + first
  BY DEF LinearInterest
<1>9. CompoundedInterest(rate, dt) = RAY + first + second + third
  BY DEF CompoundedInterest, p2, p3, one, two
<1> HIDE DEF first, second, third
<1>10. QED
  BY <1>1, <1>7, <1>8, <1>9, UnitsAssumption

(* A factor of at least one never makes an index smaller, although the     *)
(* product is rounded.                                                     *)
LEMMA GrowthNeverShrinks ==
    ASSUME NEW f \in Nat, f >= RAY, NEW index \in Nat
    PROVE  rayMul(f, index) >= index
<1>1. f * index \in Nat /\ RAY \div 2 \in Nat /\ RAY \in Nat \ {0}
  BY ProductNat, Division, UnitsAssumption
<1>2. RAY * index <= f * index
  BY <1>1
<1>3. RAY * index <= (f * index) + (RAY \div 2) /\ (f * index) + (RAY \div 2) \in Nat
  BY <1>1, <1>2, ProductNat
<1>4. DivFloor((f * index) + (RAY \div 2), RAY) >= index
  BY <1>1, <1>3, QuotientAtLeast
<1>5. QED
  BY <1>4 DEF rayMul, DivHalfUp, DivFloor

-----------------------------------------------------------------------------
(* Who asks for everything a scaled balance is worth (rounded down) burns  *)
(* (rounded up) the whole scaled balance: no more at any index, and no     *)
(* less at an index of at least one.                                       *)
LEMMA DrainAtMost ==
    ASSUME NEW scaled \in Nat, NEW index \in Nat \ {0}
    PROVE  ATokenTransferScaled(ATokenBalance(scaled, index), index) <= scaled
<1> DEFINE worth == DivFloor(scaled * index, RAY)
<1>1. scaled * index \in Nat /\ RAY \in Nat \ {0}
  BY ProductNat, UnitsAssumption
<1>2. worth \in Nat /\ RAY * worth <= scaled * index
  BY <1>1, RoundingTypes, FloorBounds
<1>3. ATokenTransferScaled(ATokenBalance(scaled, index), index)
        = DivCeil(worth * RAY, index)
  BY DEF ATokenTransferScaled, ATokenBalance, rayDivCeil, rayMulFloor
<1> HIDE DEF worth
<1>4. worth * RAY \in Nat /\ worth * RAY <= index * scaled
  BY <1>1, <1>2
<1>5. QED
  BY <1>3, <1>4, QuotientAtMost

(* A withdrawal of all that is shown burns the whole scaled balance.       *)
LEMMA DrainTakesAll ==
    ASSUME NEW scaled \in Nat, NEW index \in Nat, index >= RAY
    PROVE  ATokenBurnScaled(ATokenBalance(scaled, index), index) = scaled
<1> DEFINE worth == DivFloor(scaled * index, RAY)
           burnt == DivCeil(worth * RAY, index)
<1>1. scaled * index \in Nat /\ RAY \in Nat \ {0} /\ index \in Nat \ {0}
  BY ProductNat, UnitsAssumption
<1>2. worth \in Nat /\ scaled * index < (RAY * worth) + RAY
  BY <1>1, RoundingTypes, FloorBounds
<1>3. /\ ATokenBurnScaled(ATokenBalance(scaled, index), index) = burnt
      /\ ATokenTransferScaled(ATokenBalance(scaled, index), index) = burnt
  BY DEF ATokenBurnScaled, ATokenTransferScaled, ATokenBalance, rayDivCeil, rayMulFloor
<1>4. burnt <= scaled
  BY <1>1, <1>3, DrainAtMost
<1>5. worth * RAY \in Nat
  BY <1>1, <1>2
<1>6. burnt \in Nat /\ worth * RAY <= index * burnt
  BY <1>1, <1>5, RoundingTypes, CeilBounds
<1> HIDE DEF worth, burnt
<1>7. scaled * index < (index * burnt) + index
  BY <1>1, <1>2, <1>6
<1>8. index * scaled < index * (burnt + 1)
  BY <1>1, <1>6, <1>7
<1>9. scaled <= burnt
  BY <1>1, <1>6, <1>8
<1>10. QED
  BY <1>3, <1>4, <1>6, <1>9

(* The other round trip, of mintToTreasury: an accrual turned into an      *)
(* amount (rounded up) and minted (rounded down) is the accrual.           *)
LEMMA AccrualRoundTrip ==
    ASSUME NEW scaled \in Nat, NEW index \in Nat, index >= RAY
    PROVE  ATokenMintScaled(rayMulCeil(scaled, index), index) = scaled
<1> DEFINE worth == DivCeil(scaled * index, RAY)
           minted == DivFloor(worth * RAY, index)
<1>1. scaled * index \in Nat /\ RAY \in Nat \ {0} /\ index \in Nat \ {0}
  BY ProductNat, UnitsAssumption
<1>2. /\ worth \in Nat
      /\ scaled * index <= RAY * worth
      /\ RAY * worth < (scaled * index) + RAY
  BY <1>1, RoundingTypes, CeilBounds
<1>3. ATokenMintScaled(rayMulCeil(scaled, index), index) = minted
  BY DEF ATokenMintScaled, rayDivFloor, rayMulCeil
<1>4. worth * RAY \in Nat
  BY <1>1, <1>2
<1>5. /\ minted \in Nat
      /\ index * minted <= worth * RAY
      /\ worth * RAY < (index * minted) + index
  BY <1>1, <1>4, RoundingTypes, FloorBounds
<1> HIDE DEF worth, minted
<1>6. index * minted < index * (scaled + 1)
  BY <1>1, <1>2, <1>5
<1>7. index * scaled < index * (minted + 1)
  BY <1>1, <1>2, <1>5
<1>8. minted <= scaled /\ scaled <= minted
  BY <1>1, <1>5, <1>6, <1>7
<1>9. QED
  BY <1>3, <1>5, <1>8

(* A debt is shown as zero exactly when there is none: it is rounded up.   *)
LEMMA NoDebtIsHidden ==
    ASSUME NEW scaled \in Nat, NEW index \in Nat \ {0}
    PROVE  VTokenBalance(scaled, index) = 0 <=> scaled = 0
<1> DEFINE shown == DivCeil(scaled * index, RAY)
<1>1. scaled * index \in Nat /\ RAY \in Nat \ {0}
  BY ProductNat, UnitsAssumption
<1>2. shown \in Nat /\ scaled * index <= RAY * shown /\ RAY * shown < scaled * index + RAY
  BY <1>1, RoundingTypes, CeilBounds
<1>3. VTokenBalance(scaled, index) = shown
  BY DEF VTokenBalance, rayMulCeil
<1> HIDE DEF shown
<1>4. CASE scaled = 0
  <2>1. RAY * shown < RAY * 1
    BY <1>1, <1>2, <1>4
  <2>2. shown = 0
    BY <1>1, <1>2, <2>1
  <2>3. QED
    BY <1>3, <1>4, <2>2
<1>5. CASE scaled # 0
  <2>1. scaled * index > 0
    BY <1>5
  <2>2. shown # 0
    BY <1>1, <1>2, <2>1
  <2>3. QED
    BY <1>3, <1>5, <2>2
<1>6. QED
  BY <1>4, <1>5

(* More scaled debt is shown as at least as much.                          *)
LEMMA DebtIsMonotone ==
    ASSUME NEW scaled \in Nat, NEW more \in Nat, NEW index \in Nat
    PROVE  VTokenBalance(scaled, index) <= VTokenBalance(scaled + more, index)
<1> DEFINE shown == DivCeil((scaled + more) * index, RAY)
<1>1. /\ scaled * index \in Nat /\ (scaled + more) * index \in Nat
      /\ RAY \in Nat \ {0}
      /\ scaled * index <= (scaled + more) * index
  BY ProductNat, UnitsAssumption
<1>2. shown \in Nat /\ (scaled + more) * index <= RAY * shown
  BY <1>1, RoundingTypes, CeilBounds
<1>3. VTokenBalance(scaled + more, index) = shown
  BY DEF VTokenBalance, rayMulCeil
<1> HIDE DEF shown
<1>4. scaled * index <= RAY * shown
  BY <1>1, <1>2, ProductNat
<1>5. DivCeil(scaled * index, RAY) <= shown
  BY <1>1, <1>2, <1>4, QuotientAtMost
<1>6. QED
  BY <1>3, <1>5 DEF VTokenBalance, rayMulCeil

(* A borrow of anything mints debt: the scaled amount is rounded up.       *)
LEMMA BorrowMintsDebt ==
    ASSUME NEW amount \in Nat \ {0}, NEW index \in Nat \ {0}
    PROVE  VTokenMintScaled(amount, index) > 0
<1> DEFINE minted == DivCeil(amount * RAY, index)
<1>1. amount * RAY \in Nat /\ amount * RAY > 0
  BY UnitsAssumption
<1>2. minted \in Nat /\ amount * RAY <= index * minted
  BY <1>1, RoundingTypes, CeilBounds
<1>3. VTokenMintScaled(amount, index) = minted
  BY DEF VTokenMintScaled, rayDivCeil
<1> HIDE DEF minted
<1>4. minted # 0
  BY <1>1, <1>2
<1>5. QED
  BY <1>2, <1>3, <1>4

(* At an index of at least one a scaled balance is worth at least itself.  *)
LEMMA WorthAtLeastScaled ==
    ASSUME NEW scaled \in Nat, NEW index \in Nat, index >= RAY
    PROVE  ATokenBalance(scaled, index) >= scaled
<1>1. scaled * index \in Nat /\ RAY \in Nat \ {0} /\ RAY * scaled <= scaled * index
  BY ProductNat, UnitsAssumption
<1>2. DivFloor(scaled * index, RAY) >= scaled
  BY <1>1, QuotientAtLeast
<1>3. QED
  BY <1>2 DEF ATokenBalance, rayMulFloor

(* A part of something is at most the whole.                               *)
LEMMA PartAtMostWhole ==
    ASSUME NEW v \in Nat
    PROVE  /\ \A p \in 0..PERCENTAGE_FACTOR : percentMulCeil(v, p) <= v
           /\ \A p \in Nat : p > PERCENTAGE_FACTOR => percentDivFloor(v, p) <= v
<1>1. ASSUME NEW p \in 0..PERCENTAGE_FACTOR
      PROVE  percentMulCeil(v, p) <= v
  <2>1. /\ PERCENTAGE_FACTOR \in Nat \ {0} /\ p \in Nat /\ v * p \in Nat
        /\ v * p <= PERCENTAGE_FACTOR * v
    BY UnitsAssumption, ProductNat
  <2>2. QED
    BY <2>1, QuotientAtMost DEF percentMulCeil
<1>2. ASSUME NEW p \in Nat, p > PERCENTAGE_FACTOR
      PROVE  percentDivFloor(v, p) <= v
  <2>1. /\ v * PERCENTAGE_FACTOR \in Nat /\ v * PERCENTAGE_FACTOR <= p * v
        /\ p \in Nat \ {0}
    BY <1>2, UnitsAssumption, ProductNat
  <2>2. QED
    BY <2>1, QuotientAtMost DEF percentDivFloor
<1>3. QED
  BY <1>1, <1>2

-----------------------------------------------------------------------------
(* What an exchange of an amount for scaled units is worth at an index: in *)
(* each of the four directions the rounding is in favour of the pool.      *)
LEMMA RoundingFavoursPool ==
    ASSUME NEW amount \in Nat, NEW index \in Nat \ {0}
    PROVE  /\ ATokenMintScaled(amount, index) * index <= RAY * amount
           /\ ATokenBurnScaled(amount, index) * index >= RAY * amount
           /\ ATokenTransferScaled(amount, index) * index >= RAY * amount
           /\ VTokenMintScaled(amount, index) * index >= RAY * amount
           /\ VTokenBurnScaled(amount, index) * index <= RAY * amount
<1> DEFINE down == DivFloor(amount * RAY, index)
           up == DivCeil(amount * RAY, index)
<1>1. amount * RAY \in Nat /\ RAY \in Nat /\ RAY * amount = amount * RAY
  BY ProductNat, UnitsAssumption
<1>2. down \in Nat /\ up \in Nat /\ index * down <= amount * RAY /\ amount * RAY <= index * up
  BY <1>1, RoundingTypes, FloorBounds, CeilBounds
<1>3. /\ ATokenMintScaled(amount, index) = down /\ VTokenBurnScaled(amount, index) = down
      /\ ATokenBurnScaled(amount, index) = up /\ ATokenTransferScaled(amount, index) = up
      /\ VTokenMintScaled(amount, index) = up
  BY DEF ATokenMintScaled, VTokenBurnScaled, ATokenBurnScaled, ATokenTransferScaled,
         VTokenMintScaled, rayDivFloor, rayDivCeil
<1> HIDE DEF down, up
<1>4. down * index = index * down /\ up * index = index * up
  BY <1>2
<1>5. QED
  BY <1>1, <1>2, <1>3, <1>4

(* A balance taken in two parts is taken whole: the two roundings up cover *)
(* every scaled unit.                                                      *)
LEMMA PartsTakeAll ==
    ASSUME NEW scaled \in Nat, NEW index \in Nat, index >= RAY,
           NEW x \in Nat, NEW y \in Nat, x + y = ATokenBalance(scaled, index)
    PROVE  ATokenTransferScaled(x, index) + ATokenTransferScaled(y, index) >= scaled
<1> DEFINE X == ATokenTransferScaled(x, index)
           Y == ATokenTransferScaled(y, index)
<1>1. index \in Nat \ {0} /\ RAY \in Nat
  BY UnitsAssumption
<1>2. X \in Nat /\ Y \in Nat /\ X * index >= RAY * x /\ Y * index >= RAY * y
  BY <1>1, DivideTypes, RoundingFavoursPool
<1>3. ATokenTransferScaled(x + y, index) = scaled
  BY <1>1, DrainTakesAll DEF ATokenTransferScaled, ATokenBurnScaled
<1> HIDE DEF X, Y
<1>4. (x + y) * RAY <= index * (X + Y)
  <2>1. (x + y) * RAY = RAY * x + RAY * y /\ index * (X + Y) = X * index + Y * index
    BY <1>1, <1>2
  <2>2. RAY * x \in Nat /\ RAY * y \in Nat /\ X * index \in Nat /\ Y * index \in Nat
    BY <1>1, <1>2, ProductNat
  <2>3. QED
    BY <1>2, <2>1, <2>2
<1>5. DivCeil((x + y) * RAY, index) <= X + Y
  <2>1. (x + y) * RAY \in Nat /\ X + Y \in Nat
    BY <1>1, <1>2, ProductNat
  <2>2. QED
    BY <1>1, <1>4, <2>1, QuotientAtMost
<1>6. scaled <= X + Y
  BY <1>3, <1>5 DEF ATokenTransferScaled, rayDivCeil
<1>7. QED
  BY <1>2, <1>6 DEF X, Y

(* Whoever pays what is shown of a debt pays all of it.                    *)
LEMMA ShownDebtCoversDebt ==
    ASSUME NEW scaled \in Nat, NEW index \in Nat
    PROVE  scaled * index <= RAY * VTokenBalance(scaled, index)
<1>1. scaled * index \in Nat /\ RAY \in Nat \ {0}
  BY ProductNat, UnitsAssumption
<1>2. QED
  BY <1>1, CeilBounds DEF VTokenBalance, rayMulCeil

(* Half of something is less than it.                                      *)
LEMMA HalfIsLess ==
    ASSUME NEW b \in Nat \ {0}
    PROVE  b \div 2 \in Nat /\ b \div 2 < b
OBVIOUS

(* The half-up rounding gives back a multiple.                             *)
LEMMA HalfUpOfMultiple ==
    ASSUME NEW n \in Nat, NEW b \in Nat \ {0}
    PROVE  DivHalfUp(b * n, b) = n
<1> DEFINE s == (b * n) + (b \div 2)
           f == DivFloor(s, b)
<1>1. b * n \in Nat /\ b \div 2 \in Nat /\ b \div 2 < b
  BY ProductNat, HalfIsLess
<1>2. s \in Nat /\ b * n <= s /\ s < (b * n) + b
  BY <1>1
<1> HIDE DEF s
<1>3. f \in Nat /\ b * f <= s /\ f >= n
  BY <1>2, RoundingTypes, FloorBounds, QuotientAtLeast
<1> HIDE DEF f
<1>4. b * f < b * (n + 1)
  BY <1>1, <1>2, <1>3
<1>5. f = n
  BY <1>3, <1>4
<1>6. QED
  BY <1>5 DEF f, s, DivHalfUp, DivFloor

(* An index on which nothing is earned stays what it is, and nothing set   *)
(* aside of no interest is nothing.                                        *)
LEMMA NothingAccrues ==
    /\ \A index \in Nat : rayMul(RAY, index) = index
    /\ \A dt \in Nat : LinearInterest(0, dt) = RAY
    /\ \A supply \in Nat, factor \in Nat, index \in Nat \ {0} :
          rayDivFloor(percentMul(rayMulFloor(supply, 0), factor), index) = 0
<1>1. RAY \in Nat \ {0} /\ SECONDS_PER_YEAR \in Nat \ {0} /\ PERCENTAGE_FACTOR \in Nat \ {0}
  BY UnitsAssumption
<1>2. ASSUME NEW index \in Nat
      PROVE  rayMul(RAY, index) = index
  BY <1>1, HalfUpOfMultiple DEF rayMul
<1>3. \A b \in Nat \ {0} : 0 \div b = 0
  OBVIOUS
<1>4. ASSUME NEW dt \in Nat
      PROVE  LinearInterest(0, dt) = RAY
  <2>1. 0 * dt = 0
    OBVIOUS
  <2>2. QED
    BY <1>1, <1>3, <2>1 DEF LinearInterest
<1>5. ASSUME NEW supply \in Nat, NEW factor \in Nat, NEW index \in Nat \ {0}
      PROVE  rayDivFloor(percentMul(rayMulFloor(supply, 0), factor), index) = 0
  <2>1. rayMulFloor(supply, 0) = 0
    BY <1>1, <1>3 DEF rayMulFloor, DivFloor
  <2>2. percentMul(0, factor) = 0
    <3>1. 0 * factor = PERCENTAGE_FACTOR * 0
      BY <1>1
    <3>2. QED
      BY <1>1, <3>1, HalfUpOfMultiple DEF percentMul
  <2>3. rayDivFloor(0, index) = 0
    <3>1. 0 * RAY = 0
      BY <1>1
    <3>2. QED
      BY <1>3, <3>1 DEF rayDivFloor, DivFloor
  <2>4. QED
    BY <2>1, <2>2, <2>3
<1>6. QED
  BY <1>2, <1>4, <1>5

(* A product grows with its factors.                                       *)
LEMMA ProductMonotone ==
    ASSUME NEW m \in Nat, NEW n \in Nat, NEW k \in Nat, n <= k
    PROVE  m * n <= m * k /\ n * m <= k * m
<1>1. PICK d \in Nat : k = n + d
  <2>1. k - n \in Nat /\ k = n + (k - n)
    OBVIOUS
  <2>2. QED
    BY <2>1
<1>2. m * (n + d) = m * n + m * d /\ (n + d) * m = n * m + d * m
  OBVIOUS
<1>3. m * n \in Nat /\ m * d \in Nat /\ n * m \in Nat /\ d * m \in Nat
  BY ProductNat
<1>4. QED
  BY <1>1, <1>2, <1>3

(* The debt of a borrower grows by at least what is borrowed.              *)
LEMMA DebtGrowsByAmount ==
    ASSUME NEW balance \in Nat, NEW amount \in Nat, NEW index \in Nat \ {0}
    PROVE  VTokenBalance(balance + VTokenMintScaled(amount, index), index)
             >= VTokenBalance(balance, index) + amount
<1> DEFINE scaled == VTokenMintScaled(amount, index)
           before == VTokenBalance(balance, index)
           after == VTokenBalance(balance + scaled, index)
<1>1. scaled \in Nat /\ scaled * index >= RAY * amount
  BY DivideTypes, RoundingFavoursPool
<1>2. RAY \in Nat \ {0}
  BY UnitsAssumption
<1> HIDE DEF scaled
<1>3. /\ balance * index \in Nat /\ (balance + scaled) * index \in Nat
      /\ scaled * index \in Nat /\ balance + scaled \in Nat
      /\ (balance + scaled) * index = balance * index + scaled * index
  BY <1>1, ProductNat
<1>4. /\ before \in Nat /\ RAY * before < balance * index + RAY
  BY <1>2, <1>3, RoundingTypes, CeilBounds DEF VTokenBalance, rayMulCeil
<1>5. /\ after \in Nat /\ (balance + scaled) * index <= RAY * after
  BY <1>2, <1>3, RoundingTypes, CeilBounds DEF VTokenBalance, rayMulCeil
<1> HIDE DEF before, after
<1>6. RAY * (before + amount) < RAY * (after + 1)
  <2>1. RAY * (before + amount) = RAY * before + RAY * amount
        /\ RAY * (after + 1) = RAY * after + RAY
    BY <1>2, <1>4, <1>5
  <2>2. RAY * before \in Nat /\ RAY * amount \in Nat /\ RAY * after \in Nat
    BY <1>2, <1>4, <1>5, ProductNat
  <2>3. QED
    BY <1>1, <1>2, <1>3, <1>4, <1>5, <2>1, <2>2
<1>7. before + amount < after + 1
  <2>1. ~(after + 1 <= before + amount)
    <3>1. after + 1 <= before + amount => RAY * (after + 1) <= RAY * (before + amount)
      BY <1>2, <1>4, <1>5, ProductMonotone
    <3>2. RAY * (after + 1) \in Nat /\ RAY * (before + amount) \in Nat
      BY <1>2, <1>4, <1>5, ProductNat
    <3>3. QED
      BY <1>6, <3>1, <3>2
  <2>2. QED
    BY <1>4, <1>5, <2>1
<1>8. QED
  BY <1>4, <1>5, <1>7 DEF scaled, before, after

-----------------------------------------------------------------------------
(* What rates and indexes lose to rounding.                                *)

(* Rounding half up is off by half a unit at most.                         *)
LEMMA HalfUpBounds ==
    ASSUME NEW a \in Nat, NEW b \in Nat \ {0}
    PROVE  /\ DivHalfUp(a, b) \in Nat
           /\ 2 * (b * DivHalfUp(a, b)) <= 2 * a + b
           /\ 2 * a <= 2 * (b * DivHalfUp(a, b)) + b
<1> DEFINE h == b \div 2
           s == a + h
           q == DivFloor(s, b)
<1>1. h \in Nat /\ 2 * h <= b /\ b <= 2 * h + 1
  OBVIOUS
<1> HIDE DEF h
<1>2. s \in Nat
  BY <1>1
<1> HIDE DEF s
<1>3. q \in Nat /\ b * q <= s /\ s < (b * q) + b
  BY <1>2, RoundingTypes, FloorBounds
<1> HIDE DEF q
<1>4. b * q \in Nat
  BY <1>3, ProductNat
<1>5. 2 * (b * q) <= 2 * a + b /\ 2 * a <= 2 * (b * q) + b
  BY <1>1, <1>3, <1>4 DEF s
<1>6. DivHalfUp(a, b) = q
  BY DEF DivHalfUp, DivFloor, s, h, q
<1> QED BY <1>3, <1>5, <1>6

(* A common factor can be taken away.                                      *)
LEMMA FactorCancels ==
    ASSUME NEW k \in Nat \ {0}, NEW a \in Nat, NEW b \in Nat, k * a <= k * b
    PROVE  a <= b
<1>1. ASSUME b + 1 <= a PROVE FALSE
  <2>1. k * (b + 1) <= k * a
    BY <1>1, ProductMonotone
  <2>2. k * (b + 1) = k * b + k /\ k * b \in Nat /\ k * a \in Nat
    BY ProductNat
  <2> QED BY <2>1, <2>2
<1> QED BY <1>1

(* The debt index grows by at least the rate, whole rays of it.            *)
LEMMA DebtIndexCovers ==
    ASSUME NEW v \in Nat, NEW I \in Nat, I >= RAY, NEW J \in Nat, J >= I,
           NEW V \in Nat, NEW dt \in Nat, NEW D \in Nat, v * I <= RAY * D,
           J = rayMul(CompoundedInterest(V, dt), I) \/ v = 0 \/ dt = 0
    PROVE  2 * ((v * I) * (V * dt)) <= SECONDS_PER_YEAR * (RAY * (2 * (v * (J - I)) + 3 * D))
<1> DEFINE Y == SECONDS_PER_YEAR
           G == v * (J - I)
<1>1. RAY \in Nat \ {0} /\ Y \in Nat \ {0}
  BY UnitsAssumption
<1> HIDE DEF Y
<1>2. J - I \in Nat /\ G \in Nat
  BY ProductNat
<1>3. CASE v = 0 \/ dt = 0
  <2>1. (v * I) * (V * dt) = 0
    BY <1>3
  <2>2. Y * (RAY * (2 * G + 3 * D)) \in Nat
    BY <1>1, <1>2
  <2> QED BY <2>1, <2>2 DEF Y
<1>4. CASE J = rayMul(CompoundedInterest(V, dt), I)
  <2> DEFINE F == DivFloor(V * dt, Y)
             X == CompoundedInterest(V, dt)
  <2>1. F \in Nat /\ V * dt < (Y * F) + Y /\ V * dt \in Nat
    BY <1>1, RoundingTypes, FloorBounds, ProductNat
  <2>2. X \in Nat /\ X >= RAY + F
    BY InterestAtLeastOne DEF LinearInterest, DivFloor, Y
  <2> HIDE DEF F
  <2>3. 2 * (X * I) <= 2 * (RAY * J) + RAY
    <3>1. X * I \in Nat
      BY <2>2, ProductNat
    <3>2. J = DivHalfUp(X * I, RAY)
      BY <1>4 DEF rayMul
    <3> QED BY <1>1, <3>1, <3>2, HalfUpBounds
  <2> HIDE DEF X
  <2>4. 2 * (F * I) <= 2 * (RAY * (J - I)) + RAY
    <3>1. (RAY + F) * I <= X * I
      BY <1>1, <2>1, <2>2, ProductMonotone
    <3>2. (RAY + F) * I = RAY * I + F * I /\ RAY * (J - I) = RAY * J - RAY * I
      BY <1>1, <2>1
    <3>3. RAY * I \in Nat /\ F * I \in Nat /\ X * I \in Nat /\ RAY * J \in Nat
      BY <1>1, <2>1, <2>2, ProductNat
    <3> QED BY <1>1, <2>3, <3>1, <3>2, <3>3
  <2>5. 2 * ((v * I) * F) <= 2 * (RAY * G) + RAY * v
    <3>1. v * (2 * (F * I)) <= v * (2 * (RAY * (J - I)) + RAY)
      BY <1>1, <1>2, <2>1, <2>4, ProductMonotone
    <3>2. v * (2 * (F * I)) = 2 * ((v * I) * F)
      BY <2>1
    <3>3. v * (2 * (RAY * (J - I)) + RAY) = 2 * (RAY * G) + RAY * v
      BY <1>1, <1>2
    <3> QED BY <3>1, <3>2, <3>3
  <2>6. RAY * v <= RAY * D
    <3>1. v * RAY <= v * I
      BY <1>1, ProductMonotone
    <3> QED BY <1>1, <3>1
  <2>7. 2 * ((v * I) * F) + 2 * (v * I) <= RAY * (2 * G + 3 * D)
    <3>1. RAY * (2 * G + 3 * D) = 2 * (RAY * G) + RAY * D + 2 * (RAY * D)
      BY <1>1, <1>2
    <3>2. RAY * v \in Nat /\ RAY * D \in Nat /\ RAY * G \in Nat /\ v * I \in Nat
      BY <1>1, <1>2, ProductNat
    <3>3. (v * I) * F \in Nat
      BY <2>1, <3>2, ProductNat
    <3> QED BY <2>5, <2>6, <3>1, <3>2, <3>3
  <2>8. (v * I) * (V * dt) <= (v * I) * (Y * F + Y)
    <3>1. v * I \in Nat /\ Y * F + Y \in Nat /\ V * dt <= Y * F + Y
      BY <1>1, <2>1, ProductNat
    <3> QED BY <2>1, <3>1, ProductMonotone
  <2>9. 2 * ((v * I) * (Y * F + Y)) = Y * (2 * ((v * I) * F) + 2 * (v * I))
    BY <1>1, <2>1
  <2>10. Y * (2 * ((v * I) * F) + 2 * (v * I)) <= Y * (RAY * (2 * G + 3 * D))
    <3>1. 2 * ((v * I) * F) + 2 * (v * I) \in Nat /\ RAY * (2 * G + 3 * D) \in Nat
      BY <1>1, <1>2, <2>1, ProductNat
    <3> QED BY <1>1, <2>7, <3>1, ProductMonotone
  <2>11. (v * I) * (V * dt) \in Nat /\ (v * I) * (Y * F + Y) \in Nat
    BY <1>1, <2>1, ProductNat
  <2>12. 2 * ((v * I) * (V * dt)) <= 2 * ((v * I) * (Y * F + Y))
    BY <2>8, <2>11
  <2>13. 2 * ((v * I) * (V * dt)) <= Y * (RAY * (2 * G + 3 * D))
    <3> DEFINE lhs == 2 * ((v * I) * (V * dt))
               mid == 2 * ((v * I) * (Y * F + Y))
               rhs == Y * (RAY * (2 * G + 3 * D))
    <3>1. lhs \in Nat /\ mid \in Nat /\ rhs \in Nat
      BY <1>1, <1>2, <2>11, ProductNat
    <3>2. lhs <= mid /\ mid <= rhs
      BY <2>9, <2>10, <2>12
    <3> HIDE DEF lhs, mid, rhs
    <3>3. lhs <= rhs
      BY <3>1, <3>2
    <3> QED BY <3>3 DEF lhs, rhs
  <2> QED BY <2>13 DEF Y
<1> QED BY <1>3, <1>4

(* The liquidity index grows by at most the rate, and half a ray.          *)
LEMMA IncomeIndexAtMost ==
    ASSUME NEW S \in Nat, NEW I \in Nat, NEW J \in Nat, J >= I, NEW L \in Nat, NEW dt \in Nat,
           J = rayMul(LinearInterest(L, dt), I) \/ J = I
    PROVE  2 * (SECONDS_PER_YEAR * (RAY * (S * (J - I))))
             <= 2 * ((S * I) * (L * dt)) + SECONDS_PER_YEAR * (RAY * S)
<1> DEFINE Y == SECONDS_PER_YEAR
<1>1. RAY \in Nat \ {0} /\ Y \in Nat \ {0}
  BY UnitsAssumption
<1> HIDE DEF Y
<1>2. L * dt \in Nat
  BY ProductNat
<1>3. 2 * (Y * (RAY * (J - I))) <= 2 * (I * (L * dt)) + Y * RAY
  <2>1. CASE J = I
    <3>1. Y * (RAY * (J - I)) = 0
      BY <1>1, <2>1
    <3>2. I * (L * dt) \in Nat /\ Y * RAY \in Nat
      BY <1>1, <1>2, ProductNat
    <3> QED BY <3>1, <3>2
  <2>2. CASE J = rayMul(LinearInterest(L, dt), I)
    <3> DEFINE f == DivFloor(L * dt, Y)
    <3>1. f \in Nat /\ Y * f <= L * dt
      BY <1>1, <1>2, RoundingTypes, FloorBounds
    <3>2. LinearInterest(L, dt) = RAY + f
      BY DEF LinearInterest, DivFloor, Y
    <3> HIDE DEF f
    <3>3. 2 * (RAY * J) <= 2 * ((RAY + f) * I) + RAY
      <4>1. (RAY + f) * I \in Nat
        BY <1>1, <3>1, ProductNat
      <4> QED BY <1>1, <2>2, <3>2, <4>1, HalfUpBounds DEF rayMul
    <3>4. 2 * (RAY * (J - I)) <= 2 * (f * I) + RAY
      <4>1. (RAY + f) * I = RAY * I + f * I /\ RAY * (J - I) = RAY * J - RAY * I
        BY <1>1, <3>1
      <4>2. RAY * I \in Nat /\ f * I \in Nat /\ RAY * J \in Nat
        BY <1>1, <3>1, ProductNat
      <4> QED BY <1>1, <3>3, <4>1, <4>2
    <3>5. Y * (2 * (RAY * (J - I))) <= Y * (2 * (f * I) + RAY)
      BY <1>1, <3>1, <3>4, ProductMonotone
    <3>6. /\ Y * (2 * (RAY * (J - I))) = 2 * (Y * (RAY * (J - I)))
          /\ Y * (2 * (f * I) + RAY) = 2 * (I * (Y * f)) + Y * RAY
      BY <1>1, <3>1
    <3>7. I * (Y * f) <= I * (L * dt)
      BY <1>1, <1>2, <3>1, ProductMonotone
    <3>8. /\ I * (Y * f) \in Nat /\ I * (L * dt) \in Nat /\ Y * RAY \in Nat
          /\ Y * (RAY * (J - I)) \in Nat
      BY <1>1, <1>2, <3>1, ProductNat
    <3> QED BY <3>5, <3>6, <3>7, <3>8
  <2> QED BY <2>1, <2>2
<1>4. S * (2 * (Y * (RAY * (J - I)))) <= S * (2 * (I * (L * dt)) + Y * RAY)
  BY <1>1, <1>2, <1>3, ProductMonotone
<1>5. /\ S * (2 * (Y * (RAY * (J - I)))) = 2 * (Y * (RAY * (S * (J - I))))
      /\ S * (2 * (I * (L * dt)) + Y * RAY) = 2 * ((S * I) * (L * dt)) + Y * (RAY * S)
  BY <1>1, <1>2
<1> QED BY <1>4, <1>5 DEF Y

(* The treasury gets at most its share of what the debt grows by, and half *)
(* a unit.                                                                 *)
LEMMA TreasuryAtMostShare ==
    ASSUME NEW v \in Nat, NEW g \in Nat, NEW f \in Nat, NEW J \in Nat \ {0}
    PROVE  LET t == rayDivFloor(percentMul(rayMulFloor(v, g), f), J)
           IN  /\ t \in Nat
               /\ 2 * (PERCENTAGE_FACTOR * (t * J))
                    <= 2 * (f * (v * g)) + PERCENTAGE_FACTOR * RAY
<1> DEFINE x == rayMulFloor(v, g)
           y == percentMul(x, f)
           t == rayDivFloor(y, J)
           P == PERCENTAGE_FACTOR
<1>1. RAY \in Nat \ {0} /\ P \in Nat \ {0} /\ v * g \in Nat
  BY UnitsAssumption, ProductNat
<1>2. x \in Nat /\ RAY * x <= v * g
  BY <1>1, RoundingTypes, FloorBounds DEF rayMulFloor
<1> HIDE DEF x
<1>3. y \in Nat /\ 2 * (P * y) <= 2 * (x * f) + P
  BY <1>1, <1>2, ProductNat, HalfUpBounds DEF percentMul
<1> HIDE DEF y
<1>4. t \in Nat /\ J * t <= y * RAY
  <2>1. y * RAY \in Nat
    BY <1>1, <1>3, ProductNat
  <2> QED BY <2>1, RoundingTypes, FloorBounds DEF rayDivFloor
<1> HIDE DEF t, P
<1>5. P * (t * J) <= P * (RAY * y)
  <2>1. t * J = J * t /\ y * RAY = RAY * y /\ J * t \in Nat /\ RAY * y \in Nat
    BY <1>1, <1>3, <1>4, ProductNat
  <2> QED BY <1>1, <1>4, <2>1, ProductMonotone
<1>6. RAY * (2 * (P * y)) <= RAY * (2 * (x * f) + P)
  <2>1. 2 * (P * y) \in Nat /\ 2 * (x * f) + P \in Nat
    BY <1>1, <1>2, <1>3, ProductNat
  <2> QED BY <1>1, <1>3, <2>1, ProductMonotone
<1>7. /\ RAY * (2 * (P * y)) = 2 * (P * (RAY * y))
      /\ RAY * (2 * (x * f) + P) = 2 * (f * (RAY * x)) + P * RAY
  BY <1>1, <1>2, <1>3
<1>8. f * (RAY * x) <= f * (v * g)
  <2>1. RAY * x \in Nat
    BY <1>1, <1>2, ProductNat
  <2> QED BY <1>1, <1>2, <2>1, ProductMonotone
<1>9. /\ P * (t * J) \in Nat /\ P * (RAY * y) \in Nat /\ P * RAY \in Nat
      /\ f * (RAY * x) \in Nat /\ f * (v * g) \in Nat
  BY <1>1, <1>2, <1>3, <1>4
<1>10. 2 * (P * (t * J)) <= 2 * (f * (v * g)) + P * RAY
  BY <1>5, <1>6, <1>7, <1>8, <1>9
<1> QED BY <1>4, <1>10 DEF t, y, x, P

(* The two shares together: of the claims owed, C are backed and X are not. *)
LEMMA SharesAdd ==
    ASSUME NEW P \in Nat \ {0}, NEW Y \in Nat \ {0}, NEW R \in Nat \ {0},
           NEW q \in Nat, NEW f \in Nat, q + f = P,
           NEW C \in Nat, NEW X \in Nat, NEW L \in Nat, NEW dt \in Nat, NEW V \in Nat,
           NEW owed \in Nat, NEW p \in Nat, NEW Z \in Nat, NEW N \in Nat,
           NEW G \in Nat, NEW D \in Nat, NEW S \in Nat,
           NEW suppliers \in Nat, NEW treasury \in Nat,
           2 * (Y * (R * suppliers)) <= 2 * ((C + X) * (L * dt)) + Y * (R * S),
           2 * (P * treasury) <= 2 * (f * G) + P * R,
           P * (C * L) <= q * (owed * V) + P * (R * p),
           2 * (owed * (V * dt)) <= Y * (R * (2 * G + 3 * D)),
           p * dt <= Y * Z,
           X * (L * dt) <= (Y * R) * N
    PROVE  2 * (suppliers + treasury) <= 2 * G + 3 * D + 2 * Z + 2 * N + S + R
<1> DEFINE YR == Y * R
           E == 2 * G + 3 * D
<1>1. YR \in Nat \ {0} /\ E \in Nat
  OBVIOUS
<1>2. L * dt \in Nat /\ V * dt \in Nat /\ C * L \in Nat /\ owed * V \in Nat /\ p * dt \in Nat
  BY ProductNat
<1>3. P * (C * (L * dt)) <= q * (owed * (V * dt)) + P * (R * (p * dt))
  <2>1. dt * (P * (C * L)) <= dt * (q * (owed * V) + P * (R * p))
    <3>1. P * (C * L) \in Nat /\ q * (owed * V) + P * (R * p) \in Nat
      BY <1>2, ProductNat
    <3> QED BY <3>1, ProductMonotone
  <2>2. /\ dt * (P * (C * L)) = P * (C * (L * dt))
        /\ dt * (q * (owed * V) + P * (R * p)) = q * (owed * (V * dt)) + P * (R * (p * dt))
    OBVIOUS
  <2> QED BY <2>1, <2>2
<1>4. q * (2 * (owed * (V * dt))) <= q * (YR * E)
  <2>1. 2 * (owed * (V * dt)) \in Nat /\ Y * (R * E) \in Nat /\ YR * E = Y * (R * E)
    BY <1>1, <1>2, ProductNat
  <2> QED BY <2>1, ProductMonotone
<1>5. P * (R * (p * dt)) <= P * (YR * Z)
  <2>1. R * (p * dt) <= R * (Y * Z)
    BY <1>2, ProductNat, ProductMonotone
  <2>2. R * (Y * Z) = YR * Z /\ R * (p * dt) \in Nat /\ YR * Z \in Nat
    BY <1>1, <1>2, ProductNat
  <2> QED BY <2>1, <2>2, ProductMonotone
<1>6. P * (X * (L * dt)) <= P * (YR * N)
  <2>1. X * (L * dt) \in Nat /\ YR * N \in Nat
    BY <1>1, <1>2, ProductNat
  <2> QED BY <2>1, ProductMonotone
<1>7. P * (2 * (YR * suppliers)) <= YR * (q * E + P * (2 * Z + 2 * N) + P * S)
  <2>1. P * (2 * (YR * suppliers)) <= P * (2 * ((C + X) * (L * dt)) + YR * S)
    <3>1. 2 * (YR * suppliers) = 2 * (Y * (R * suppliers)) /\ YR * S = Y * (R * S)
      OBVIOUS
    <3>2. 2 * (YR * suppliers) \in Nat /\ 2 * ((C + X) * (L * dt)) + YR * S \in Nat
      BY <1>1, <1>2, ProductNat
    <3> QED BY <3>1, <3>2, ProductMonotone
  <2>2. P * (2 * ((C + X) * (L * dt)) + YR * S)
          = 2 * (P * (C * (L * dt))) + 2 * (P * (X * (L * dt))) + P * (YR * S)
    BY <1>1, <1>2
  <2>3. YR * (q * E + P * (2 * Z + 2 * N) + P * S)
          = q * (YR * E) + 2 * (P * (YR * Z)) + 2 * (P * (YR * N)) + P * (YR * S)
    BY <1>1
  <2>4. q * (2 * (owed * (V * dt))) = 2 * (q * (owed * (V * dt)))
    BY <1>2
  <2> DEFINE a1 == P * (C * (L * dt))
             a2 == P * (X * (L * dt))
             a3 == q * (owed * (V * dt))
             a4 == P * (R * (p * dt))
             b1 == q * (YR * E)
             b2 == P * (YR * Z)
             b3 == P * (YR * N)
             s == P * (YR * S)
             lhs == P * (2 * (YR * suppliers))
  <2>5. /\ a1 \in Nat /\ a2 \in Nat /\ a3 \in Nat /\ a4 \in Nat
        /\ b1 \in Nat /\ b2 \in Nat /\ b3 \in Nat /\ s \in Nat /\ lhs \in Nat
    BY <1>1, <1>2, ProductNat
  <2>6. lhs <= 2 * a1 + 2 * a2 + s /\ a1 <= a3 + a4 /\ 2 * a3 <= b1 /\ a4 <= b2 /\ a2 <= b3
    BY <1>3, <1>4, <1>5, <1>6, <2>1, <2>2, <2>4
  <2> HIDE DEF a1, a2, a3, a4, b1, b2, b3, s, lhs
  <2>7. lhs <= b1 + 2 * b2 + 2 * b3 + s
    BY <2>5, <2>6
  <2> QED BY <2>3, <2>7 DEF lhs, b1, b2, b3, s
<1>8. 2 * (P * suppliers) <= q * E + P * (2 * Z + 2 * N) + P * S
  <2>1. P * (2 * (YR * suppliers)) = YR * (2 * (P * suppliers))
    BY <1>1
  <2>2. 2 * (P * suppliers) \in Nat /\ q * E + P * (2 * Z + 2 * N) + P * S \in Nat
    BY <1>1, ProductNat
  <2> QED BY <1>1, <1>7, <2>1, <2>2, FactorCancels
<1>9. P * (2 * (suppliers + treasury)) <= P * (2 * G + 3 * D + 2 * Z + 2 * N + S + R)
  <2>1. 2 * (f * G) <= f * E
    <3>1. f * (2 * G) <= f * E
      BY <1>1, ProductMonotone
    <3> QED BY <3>1
  <2>2. q * E + f * E = P * E
    BY <1>1
  <2>3. P * (2 * (suppliers + treasury)) = 2 * (P * suppliers) + 2 * (P * treasury)
    OBVIOUS
  <2>4. P * (2 * G + 3 * D + 2 * Z + 2 * N + S + R)
          = P * E + P * (2 * Z + 2 * N) + P * S + P * R
    OBVIOUS
  <2>5. /\ q * E \in Nat /\ f * E \in Nat /\ P * E \in Nat /\ f * G \in Nat
        /\ P * (2 * Z + 2 * N) \in Nat /\ P * S \in Nat /\ P * R \in Nat
        /\ P * suppliers \in Nat /\ P * treasury \in Nat
    BY <1>1, ProductNat
  <2> HIDE DEF E
  <2> QED BY <1>8, <2>1, <2>2, <2>3, <2>4, <2>5
<1>10. /\ 2 * (suppliers + treasury) \in Nat
       /\ 2 * G + 3 * D + 2 * Z + 2 * N + S + R \in Nat
  OBVIOUS
<1> QED BY <1>9, <1>10, FactorCancels
=============================================================================
