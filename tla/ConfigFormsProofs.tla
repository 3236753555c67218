------------------------- MODULE ConfigFormsProofs -------------------------
(***************************************************************************)
(* Theorems about the three forms of a configuration, for all arguments    *)
(* and any series of calls.                                                *)
(*                                                                         *)
(* A structured form keeps the fields of the other mode empty (Pure), so   *)
(* that the flat form loses nothing of it but a mode it cannot infer.  The *)
(* three forms stay together because the flat one converts to the          *)
(* structured one exactly: that is the invariant Together.                 *)
(***************************************************************************)
EXTENDS ConfigForms, TLAPS

\* The fields that the mode does not read are empty.
Pure(s) ==
  /\ s.mode = "target" => s.bits = 0 /\ s.hashCount = 0
  /\ s.mode = "explicit" => s.capacity = 0 /\ s.fpr = "zero" /\ s.bounds = NoBounds

Together ==
  /\ fc = Structured(c)
  /\ ~forked => b = fc
  /\ fc.mode = "explicit" => fc.bits # 0
  /\ fc.mode = "target" => c.hashCount = 0

ConfigInv ==
  /\ ConfigTypeOK
  /\ Pure(fc) /\ Pure(b)
  /\ ~incomplete => Together

-----------------------------------------------------------------------------
(* The conversions *)

\* The zero value is an argument of every option.
LEMMA EmptyArguments ==
  /\ 0 \in Capacity /\ 0 \in Bits /\ 0 \in HashCount /\ 0 \in Width
  /\ NoBounds \in Bounds
  /\ Capacity \subseteq Nat /\ Bits \subseteq Nat /\ HashCount \subseteq Nat
<1>1. /\ 0 \in Capacity /\ 0 \in Bits /\ 0 \in HashCount /\ 0 \in Width
      /\ 0 \in MinBits /\ 0 \in MaxK
      /\ Capacity \subseteq Nat /\ Bits \subseteq Nat /\ HashCount \subseteq Nat
  BY ArgumentAssumption
<1> QED BY <1>1 DEF Bounds, NoBounds

\* A structured form is made from the branch that the flat one's mode reads.
LEMMA StructuredWith ==
  ASSUME NEW x
  PROVE  Structured(x) =
           With(IF ConfigMode(x) = "explicit" THEN ExplicitSizing(x.bits, x.hashCount)
                ELSE TargetSizing(x.capacity, x.fpr, x.bounds), x.width, x.hash)
<1> DEFINE sizing == IF ConfigMode(x) = "explicit" THEN ExplicitSizing(x.bits, x.hashCount)
                     ELSE TargetSizing(x.capacity, x.fpr, x.bounds)
<1>1. StructuredFilter(x) = With(sizing, 0, x.hash)
  BY DEF StructuredFilter
<1> HIDE DEF sizing
<1>2. [With(sizing, 0, x.hash) EXCEPT !.width = x.width] = With(sizing, x.width, x.hash)
  BY DEF With
<1> QED BY <1>1, <1>2 DEF Structured, sizing

\* The fields of a structured form made from a flat one, by its mode.
LEMMA StructuredFields ==
  ASSUME NEW x \in LegacyForm
  PROVE  /\ Structured(x) \in StructuredForm /\ Pure(Structured(x))
         /\ Structured(x).mode = ConfigMode(x)
         /\ Structured(x).width = x.width /\ Structured(x).hash = x.hash
         /\ ConfigMode(x) = "target" =>
              /\ Structured(x).capacity = x.capacity /\ Structured(x).fpr = x.fpr
              /\ Structured(x).bounds = x.bounds
         /\ ConfigMode(x) = "explicit" =>
              Structured(x).bits = x.bits /\ Structured(x).hashCount = x.hashCount
BY EmptyArguments, StructuredWith DEF LegacyForm, StructuredForm, With, TargetSizing, ExplicitSizing,
   Pure, ConfigMode, Rate

\* The flat form of a structured one has its fields, whatever the mode.
LEMMA LegacyFields ==
  ASSUME NEW s \in StructuredForm, Pure(s)
  PROVE  /\ Legacy(s) \in LegacyForm
         /\ Legacy(s).capacity = s.capacity /\ Legacy(s).fpr = s.fpr
         /\ Legacy(s).bits = s.bits /\ Legacy(s).hashCount = s.hashCount
         /\ Legacy(s).bounds = s.bounds /\ Legacy(s).width = s.width /\ Legacy(s).hash = s.hash
BY EmptyArguments DEF LegacyForm, StructuredForm, Legacy, FlatFilter, Pure, Rate

\* Two structured forms with the same fields are one.
LEMMA SameFields ==
  ASSUME NEW s \in StructuredForm, NEW t \in StructuredForm,
         s.mode = t.mode, s.capacity = t.capacity, s.fpr = t.fpr, s.bounds = t.bounds,
         s.bits = t.bits, s.hashCount = t.hashCount, s.width = t.width, s.hash = t.hash
  PROVE  s = t
BY DEF StructuredForm

\* A structured form comes back from the flat one, unless it is explicit without
\* a bit count; then the flat form is not valid either (config.go:289-306).
LEMMA ThereAndBack ==
  ASSUME NEW s \in StructuredForm, Pure(s)
  PROVE  /\ s.mode = "target" \/ s.bits # 0 => Structured(Legacy(s)) = s
         /\ ConfigValidate(Legacy(s)) = "none" <=> Validate(s) = "none"
         /\ Validate(s) = "none" => s.mode = "target" \/ s.bits # 0
<1> DEFINE x == Legacy(s)
<1>1. /\ x \in LegacyForm /\ x.capacity = s.capacity /\ x.fpr = s.fpr /\ x.bits = s.bits
      /\ x.hashCount = s.hashCount /\ x.bounds = s.bounds /\ x.width = s.width /\ x.hash = s.hash
  BY LegacyFields
<1>2. s.mode \in {"target", "explicit"} /\ s.bits \in Nat /\ s.hashCount \in Nat
  BY EmptyArguments DEF StructuredForm
<1> HIDE DEF x
<1>3. ASSUME s.mode = "target" \/ s.bits # 0 PROVE ConfigMode(x) = s.mode /\ Structured(x) = s
  <2>1. ConfigMode(x) = s.mode
    BY <1>1, <1>2, <1>3 DEF ConfigMode, isExplicitSizing, isIncompleteExplicitSizing, Pure
  <2>2. Structured(x) \in StructuredForm /\ Pure(Structured(x))
    BY <1>1, StructuredFields
  <2>3. /\ Structured(x).mode = s.mode /\ Structured(x).width = s.width /\ Structured(x).hash = s.hash
        /\ Structured(x).capacity = s.capacity /\ Structured(x).fpr = s.fpr
        /\ Structured(x).bounds = s.bounds /\ Structured(x).bits = s.bits
        /\ Structured(x).hashCount = s.hashCount
    BY <1>1, <1>2, <2>1, <2>2, StructuredFields DEF Pure
  <2> QED BY <2>1, <2>2, <2>3, SameFields
<1>4. ConfigValidate(x) = "none" <=> Validate(s) = "none"
  BY <1>1, <1>2 DEF ConfigValidate, Validate, TargetError, isExplicitSizing,
     isIncompleteExplicitSizing, Pure
<1>5. Validate(s) = "none" => s.mode = "target" \/ s.bits # 0
  BY <1>2 DEF Validate
<1> QED BY <1>3, <1>4, <1>5 DEF x

\* The pair of conversions without the width is the other pair, but for it, and
\* what it leaves is valid if the other is.
LEMMA WidthAside ==
  /\ \A x \in LegacyForm : StructuredFilter(x) = [Structured(x) EXCEPT !.width = 0]
  /\ \A s \in StructuredForm : Pure(s) =>
       /\ FlatFilter(s) = [Legacy(s) EXCEPT !.width = 0]
       /\ FlatFilter(s) \in LegacyForm
       /\ StructuredFilter(FlatFilter(s)) = [Structured(Legacy(s)) EXCEPT !.width = 0]
       /\ ConfigValidate(FlatFilter(s)) = ConfigValidate(Legacy(s))
<1>1. ASSUME NEW x \in LegacyForm PROVE StructuredFilter(x) = [Structured(x) EXCEPT !.width = 0]
  <2> DEFINE sizing == IF ConfigMode(x) = "explicit" THEN ExplicitSizing(x.bits, x.hashCount)
                       ELSE TargetSizing(x.capacity, x.fpr, x.bounds)
  <2>1. StructuredFilter(x) = With(sizing, 0, x.hash)
    BY DEF StructuredFilter
  <2>2. Structured(x) = With(sizing, x.width, x.hash)
    BY StructuredWith
  <2> HIDE DEF sizing
  <2> QED BY <2>1, <2>2 DEF With
<1>2. ASSUME NEW s \in StructuredForm, Pure(s)
      PROVE  /\ FlatFilter(s) = [Legacy(s) EXCEPT !.width = 0]
             /\ FlatFilter(s) \in LegacyForm
             /\ StructuredFilter(FlatFilter(s)) = [Structured(Legacy(s)) EXCEPT !.width = 0]
             /\ ConfigValidate(FlatFilter(s)) = ConfigValidate(Legacy(s))
  <2>1. Legacy(s) \in LegacyForm
    BY <1>2, LegacyFields
  <2>2. FlatFilter(s) \in LegacyForm /\ FlatFilter(s).width = 0
    BY EmptyArguments DEF LegacyForm, StructuredForm, FlatFilter, Rate
  <2>3. FlatFilter(s) = [Legacy(s) EXCEPT !.width = 0]
    BY <2>2 DEF Legacy, LegacyForm
  <2>4. /\ StructuredFilter(FlatFilter(s)) = StructuredFilter(Legacy(s))
        /\ ConfigValidate(FlatFilter(s)) = ConfigValidate(Legacy(s))
    BY <2>1, <2>3 DEF LegacyForm, StructuredFilter, With, ConfigMode, isExplicitSizing,
       isIncompleteExplicitSizing, TargetSizing, ExplicitSizing, ConfigValidate, TargetError
  <2> QED BY <1>1, <2>1, <2>2, <2>3, <2>4
<1> QED BY <1>1, <1>2

\* The flat form sizes itself as its structured form does.
LEMMA SizesAgree ==
  ASSUME NEW x \in LegacyForm
  PROVE  ConfigSize(x) = Size(Structured(x))
<1> DEFINE s == Structured(x)
<1>1. /\ s.mode = ConfigMode(x)
      /\ ConfigMode(x) = "target" => s.capacity = x.capacity /\ s.fpr = x.fpr /\ s.bounds = x.bounds
      /\ ConfigMode(x) = "explicit" => s.bits = x.bits /\ s.hashCount = x.hashCount
  BY StructuredFields
<1>2. x.bits \in Nat
  BY EmptyArguments DEF LegacyForm
<1> HIDE DEF s
<1>3. ConfigValidate(x) = Validate(s)
  BY <1>1, <1>2 DEF ConfigValidate, Validate, TargetError, ConfigMode, isExplicitSizing,
     isIncompleteExplicitSizing
<1>4. isExplicitSizing(x) => ExplicitLayout(x) = ExplicitLayout(s)
  BY <1>1 DEF ConfigMode, ExplicitLayout
<1>5. ~isExplicitSizing(x) => TargetLayout(x) = TargetLayout(s)
  BY <1>1 DEF ConfigMode, TargetLayout
<1>6. s.mode = "target" <=> ~isExplicitSizing(x)
  BY <1>1 DEF ConfigMode
<1> QED BY <1>3, <1>4, <1>5, <1>6 DEF ConfigSize, Size, s

-----------------------------------------------------------------------------
(* The calls *)

\* What construction leaves: the flat form is that of the structured one.
LEMMA StartStep ==
  ASSUME NEW hash \in Hash, NEW w \in Width,
         NEW n \in Capacity, NEW p \in Rate, NEW bounds \in Bounds,
         NEW m \in Bits, NEW k \in HashCount,
         \/ Start(TargetSizing(n, p, bounds), w, hash)
         \/ Start(ExplicitSizing(m, k), w, hash)
  PROVE  /\ c \in LegacyForm /\ fc \in StructuredForm /\ b = fc /\ incomplete \in BOOLEAN
         /\ Pure(fc)
         /\ ~incomplete => Together
<1>1. fc \in StructuredForm /\ Pure(fc) /\ b = fc /\ c = Legacy(fc)
  BY EmptyArguments DEF Start, With, TargetSizing, ExplicitSizing, StructuredForm, Pure, Rate
<1>2. incomplete \in BOOLEAN /\ (~incomplete => fc.mode = "target" \/ fc.bits # 0)
  <2>1. CASE Start(TargetSizing(n, p, bounds), w, hash)
    BY <2>1 DEF Start, With, TargetSizing
  <2>2. CASE Start(ExplicitSizing(m, k), w, hash)
    BY <2>2 DEF Start, With, ExplicitSizing
  <2> QED BY <2>1, <2>2
<1>3. c \in LegacyForm /\ c.hashCount = fc.hashCount
  BY <1>1, LegacyFields
<1>4. ASSUME ~incomplete PROVE Together
  BY <1>1, <1>2, <1>3, <1>4, ThereAndBack DEF Together, Pure
<1> QED BY <1>1, <1>2, <1>3, <1>4

\* Every way to construct the three forms makes them agree.
LEMMA ConfigStart == ConfigInit => ConfigInv
<1> SUFFICES ASSUME ConfigInit PROVE ConfigInv
  OBVIOUS
<1>1. PICK hash \in Hash : FromConstructors(hash) \/ FromFlags(hash)
  BY DEF ConfigInit
<1>2. \E w \in Width, n \in Capacity, p \in Rate, bounds \in Bounds, m \in Bits, k \in HashCount :
        \/ Start(TargetSizing(n, p, bounds), w, hash)
        \/ Start(ExplicitSizing(m, k), w, hash)
  <2>1. CASE FromConstructors(hash)
    <3>1. "zero" \in Rate
      BY DEF Rate
    <3> QED BY <2>1, <3>1, EmptyArguments DEF FromConstructors
  <2>2. CASE FromFlags(hash)
    BY <2>2, EmptyArguments DEF FromFlags
  <2> QED BY <1>1, <2>1, <2>2
<1>3. /\ c \in LegacyForm /\ fc \in StructuredForm /\ b = fc /\ incomplete \in BOOLEAN
      /\ Pure(fc)
      /\ ~incomplete => Together
  BY <1>2, StartStep
<1>4. forked \in BOOLEAN /\ calls \in 0 .. MaxCalls
  <2>1. forked = FALSE /\ calls = 0
    BY DEF ConfigInit
  <2>2. MaxCalls \in Nat
    BY ArgumentAssumption
  <2>3. forked \in BOOLEAN
    BY <2>1, Zenon
  <2>4. calls = 0 => calls \in 0 .. MaxCalls
    BY <2>2, SMT
  <2> QED BY <2>1, <2>3, <2>4
<1>5. ConfigTypeOK
  BY <1>3, <1>4 DEF ConfigTypeOK
<1>6. Pure(b)
  BY <1>3
<1> QED BY <1>3, <1>5, <1>6 DEF ConfigInv

\* A call is counted.
LEMMA CalledTypes ==
  ASSUME ConfigTypeOK, NEW name, Called(name)
  PROVE  calls' \in 0 .. MaxCalls
BY ArgumentAssumption DEF ConfigTypeOK, Called

\* Choosing a hash, in the three forms.
LEMMA HashStep ==
  ASSUME ConfigInv, NEW h \in Hash, WithHash(h)
  PROVE  ConfigInv'
<1>1. /\ c' = [c EXCEPT !.hash = h] /\ fc' = [fc EXCEPT !.hash = h] /\ b' = [b EXCEPT !.hash = h]
      /\ UNCHANGED <<incomplete, forked>> /\ calls' \in 0 .. MaxCalls
  BY CalledTypes DEF WithHash, ConfigInv
<1>2. c' \in LegacyForm /\ fc' \in StructuredForm /\ b' \in StructuredForm
  BY <1>1 DEF ConfigInv, ConfigTypeOK, LegacyForm, StructuredForm
<1>3. Pure(fc)' /\ Pure(b)'
  BY <1>1 DEF ConfigInv, ConfigTypeOK, StructuredForm, Pure
<1>4. Together => Together'
  <2> SUFFICES ASSUME Together PROVE Together'
    OBVIOUS
  <2>1. Structured(c') = [Structured(c) EXCEPT !.hash = h]
    <3>1. c \in LegacyForm
      BY DEF ConfigInv, ConfigTypeOK
    <3>2. Structured([c EXCEPT !.hash = h]) = [Structured(c) EXCEPT !.hash = h]
      BY <3>1, StructuredWith DEF LegacyForm, With, TargetSizing, ExplicitSizing,
         ConfigMode, isExplicitSizing, isIncompleteExplicitSizing
    <3> QED BY <1>1, <3>2
  <2>2. fc'.mode = fc.mode /\ fc'.bits = fc.bits /\ c'.hashCount = c.hashCount
    BY <1>1 DEF ConfigInv, ConfigTypeOK, LegacyForm, StructuredForm
  <2> QED BY <1>1, <2>1, <2>2 DEF Together, Structured
<1> QED BY <1>1, <1>2, <1>3, <1>4 DEF ConfigInv, ConfigTypeOK

\* Choosing a counter width, in the three forms.
LEMMA WidthStep ==
  ASSUME ConfigInv, NEW w \in Width, WithCounterWidth(w)
  PROVE  ConfigInv'
<1>1. /\ c' = [c EXCEPT !.width = w] /\ fc' = [fc EXCEPT !.width = w] /\ b' = [b EXCEPT !.width = w]
      /\ UNCHANGED <<incomplete, forked>> /\ calls' \in 0 .. MaxCalls
  BY CalledTypes DEF WithCounterWidth, ConfigInv
<1>2. c' \in LegacyForm /\ fc' \in StructuredForm /\ b' \in StructuredForm
  BY <1>1 DEF ConfigInv, ConfigTypeOK, LegacyForm, StructuredForm
<1>3. Pure(fc)' /\ Pure(b)'
  BY <1>1 DEF ConfigInv, ConfigTypeOK, StructuredForm, Pure
<1>4. Together => Together'
  <2> SUFFICES ASSUME Together PROVE Together'
    OBVIOUS
  <2>1. Structured(c') = [Structured(c) EXCEPT !.width = w]
    <3>1. c \in LegacyForm
      BY DEF ConfigInv, ConfigTypeOK
    <3>2. Structured([c EXCEPT !.width = w]) = [Structured(c) EXCEPT !.width = w]
      BY <3>1, StructuredWith DEF LegacyForm, With, TargetSizing, ExplicitSizing,
         ConfigMode, isExplicitSizing, isIncompleteExplicitSizing
    <3> QED BY <1>1, <3>2
  <2>2. fc'.mode = fc.mode /\ fc'.bits = fc.bits /\ c'.hashCount = c.hashCount
    BY <1>1 DEF ConfigInv, ConfigTypeOK, LegacyForm, StructuredForm
  <2> QED BY <1>1, <2>1, <2>2 DEF Together, Structured
<1> QED BY <1>1, <1>2, <1>3, <1>4 DEF ConfigInv, ConfigTypeOK

\* Explicit structured forms leave bounds, capacity and rate alone; the flat form
\* keeps them, and does not read them.
LEMMA BoundsStep ==
  ASSUME ConfigInv, NEW bounds \in Bounds, WithSizingBounds(bounds)
  PROVE  ConfigInv'
<1>1. /\ c' = [c EXCEPT !.bounds = bounds] /\ fc' = Bounded(fc, bounds) /\ b' = Bounded(b, bounds)
      /\ UNCHANGED <<incomplete, forked>> /\ calls' \in 0 .. MaxCalls
  BY CalledTypes DEF WithSizingBounds, ConfigInv
<1>2. c' \in LegacyForm /\ fc' \in StructuredForm /\ b' \in StructuredForm
  BY <1>1 DEF ConfigInv, ConfigTypeOK, LegacyForm, StructuredForm, Bounded
<1>3. Pure(fc)' /\ Pure(b)'
  BY <1>1 DEF ConfigInv, ConfigTypeOK, StructuredForm, Pure, Bounded
<1>4. Together => Together'
  <2> SUFFICES ASSUME Together PROVE Together'
    OBVIOUS
  <2>1. Structured(c') = Bounded(Structured(c), bounds)
    BY <1>1, StructuredWith DEF ConfigInv, ConfigTypeOK, LegacyForm, With, TargetSizing, ExplicitSizing,
       ConfigMode, isExplicitSizing, isIncompleteExplicitSizing, Bounded
  <2>2. fc'.mode = fc.mode /\ fc'.bits = fc.bits /\ c'.hashCount = c.hashCount
    BY <1>1 DEF ConfigInv, ConfigTypeOK, LegacyForm, StructuredForm, Bounded
  <2> QED BY <1>1, <2>1, <2>2 DEF Together, Bounded
<1> QED BY <1>1, <1>2, <1>3, <1>4 DEF ConfigInv, ConfigTypeOK

\* WithExpectedCapacity, which an explicit structured form ignores.
LEMMA CapacityStep ==
  ASSUME ConfigInv, NEW n \in Capacity, WithExpectedCapacity(n)
  PROVE  ConfigInv'
<1>1. /\ c' = [c EXCEPT !.capacity = n]
      /\ fc' = IF fc.mode = "target" THEN [fc EXCEPT !.capacity = n] ELSE fc
      /\ forked' = TRUE /\ UNCHANGED <<b, incomplete>> /\ calls' \in 0 .. MaxCalls
  BY CalledTypes DEF WithExpectedCapacity, ConfigInv
<1>2. c' \in LegacyForm /\ fc' \in StructuredForm /\ Pure(fc)'
  BY <1>1 DEF ConfigInv, ConfigTypeOK, LegacyForm, StructuredForm, Pure
<1>3. Together => Together'
  <2> SUFFICES ASSUME Together PROVE Together'
    OBVIOUS
  <2>1. fc = Structured(c) /\ c.bits \in Nat /\ c.hashCount \in Nat
    BY EmptyArguments DEF Together, ConfigInv, ConfigTypeOK, LegacyForm
  <2>2. fc.mode = ConfigMode(c) /\ (fc.mode = "explicit" => c.bits # 0)
    BY <2>1, StructuredFields DEF Together, ConfigInv, ConfigTypeOK
  <2>3. ConfigMode(c') = ConfigMode(c)
    BY <1>1, <2>1, <2>2 DEF Together, ConfigInv, ConfigTypeOK, LegacyForm, ConfigMode, isExplicitSizing,
       isIncompleteExplicitSizing
  <2>4. Structured(c') = IF fc.mode = "target" THEN [Structured(c) EXCEPT !.capacity = n] ELSE Structured(c)
    <3>1. CASE fc.mode = "target"
      BY <1>1, <2>2, <2>3, <3>1, StructuredWith DEF ConfigInv, ConfigTypeOK, LegacyForm, With, TargetSizing
    <3>2. CASE fc.mode # "target"
      <4>1. ConfigMode(c) = "explicit"
        BY <2>2, <3>2 DEF ConfigMode
      <4> QED
        BY <1>1, <2>3, <3>2, <4>1, StructuredWith DEF ConfigInv, ConfigTypeOK, LegacyForm, With, ExplicitSizing
    <3> QED BY <3>1, <3>2
  <2>5. fc'.mode = fc.mode /\ fc'.bits = fc.bits /\ c'.hashCount = c.hashCount
    BY <1>1 DEF ConfigInv, ConfigTypeOK, LegacyForm, StructuredForm
  <2>6. fc' = Structured(c')
    BY <1>1, <2>1, <2>4
  <2> QED BY <1>1, <2>5, <2>6 DEF Together
<1> QED BY <1>1, <1>2, <1>3 DEF ConfigInv, ConfigTypeOK

\* WithFalsePositiveRate, which an explicit structured form ignores.
LEMMA RateStep ==
  ASSUME ConfigInv, NEW p \in Rate, WithFalsePositiveRate(p)
  PROVE  ConfigInv'
<1>1. /\ c' = [c EXCEPT !.fpr = p]
      /\ fc' = IF fc.mode = "target" THEN [fc EXCEPT !.fpr = p] ELSE fc
      /\ forked' = TRUE /\ UNCHANGED <<b, incomplete>> /\ calls' \in 0 .. MaxCalls
  BY CalledTypes DEF WithFalsePositiveRate, ConfigInv
<1>2. c' \in LegacyForm /\ fc' \in StructuredForm /\ Pure(fc)'
  BY <1>1 DEF ConfigInv, ConfigTypeOK, LegacyForm, StructuredForm, Pure
<1>3. Together => Together'
  <2> SUFFICES ASSUME Together PROVE Together'
    OBVIOUS
  <2>1. fc = Structured(c) /\ c.bits \in Nat /\ c.hashCount \in Nat
    BY EmptyArguments DEF Together, ConfigInv, ConfigTypeOK, LegacyForm
  <2>2. fc.mode = ConfigMode(c) /\ (fc.mode = "explicit" => c.bits # 0)
    BY <2>1, StructuredFields DEF Together, ConfigInv, ConfigTypeOK
  <2>3. ConfigMode(c') = ConfigMode(c)
    BY <1>1, <2>1, <2>2 DEF Together, ConfigInv, ConfigTypeOK, LegacyForm, ConfigMode, isExplicitSizing,
       isIncompleteExplicitSizing
  <2>4. Structured(c') = IF fc.mode = "target" THEN [Structured(c) EXCEPT !.fpr = p] ELSE Structured(c)
    <3>1. CASE fc.mode = "target"
      BY <1>1, <2>2, <2>3, <3>1, StructuredWith DEF ConfigInv, ConfigTypeOK, LegacyForm, With, TargetSizing
    <3>2. CASE fc.mode # "target"
      <4>1. ConfigMode(c) = "explicit"
        BY <2>2, <3>2 DEF ConfigMode
      <4> QED
        BY <1>1, <2>3, <3>2, <4>1, StructuredWith DEF ConfigInv, ConfigTypeOK, LegacyForm, With, ExplicitSizing
    <3> QED BY <3>1, <3>2
  <2>5. fc'.mode = fc.mode /\ fc'.bits = fc.bits /\ c'.hashCount = c.hashCount
    BY <1>1 DEF ConfigInv, ConfigTypeOK, LegacyForm, StructuredForm
  <2>6. fc' = Structured(c')
    BY <1>1, <2>1, <2>4
  <2> QED BY <1>1, <2>5, <2>6 DEF Together
<1> QED BY <1>1, <1>2, <1>3 DEF ConfigInv, ConfigTypeOK

\* Tuning a structured form sets its hash, if it is valid, and nothing else.
LEMMA TunedHash ==
  ASSUME NEW s \in StructuredForm, Pure(s), NEW h \in Hash
  PROVE  /\ Tuned(s, h) = IF Validate(s) = "none" THEN [s EXCEPT !.hash = h] ELSE s
         /\ Tuned(s, h) \in StructuredForm /\ Pure(Tuned(s, h))
         /\ Size(Tuned(s, h)) = Size(s) /\ Tuned(s, h).width = s.width
<1>1. Tuned(s, h) = IF Validate(s) = "none" THEN [s EXCEPT !.hash = h] ELSE s
  <2>1. CASE Validate(s) = "none"
    <3>1. StructuredFilter(FlatFilter(s)) = [s EXCEPT !.width = 0]
      BY <2>1, ThereAndBack, WidthAside
    <3> QED BY <2>1, <3>1, ThereAndBack, WidthAside DEF Tuned, StructuredForm
  <2>2. CASE Validate(s) # "none"
    BY <2>2, ThereAndBack, WidthAside DEF Tuned
  <2> QED BY <2>1, <2>2
<1>2. Tuned(s, h) \in StructuredForm /\ Pure(Tuned(s, h))
  BY <1>1 DEF StructuredForm, Pure
<1>3. /\ Tuned(s, h).mode = s.mode /\ Tuned(s, h).capacity = s.capacity /\ Tuned(s, h).fpr = s.fpr
      /\ Tuned(s, h).bounds = s.bounds /\ Tuned(s, h).bits = s.bits
      /\ Tuned(s, h).hashCount = s.hashCount /\ Tuned(s, h).width = s.width
  BY <1>1 DEF StructuredForm
<1>4. Size(Tuned(s, h)) = Size(s)
  BY <1>3 DEF Size, Validate, TargetError, TargetLayout, ExplicitLayout
<1> QED BY <1>1, <1>2, <1>3, <1>4

\* The tuner gives the three forms one hash, or leaves all three as they were.
LEMMA TuneStep ==
  ASSUME ConfigInv, NEW h \in Hash, WithRecommendedHash(h)
  PROVE  /\ ConfigInv'
         /\ ConfigSize(c') = ConfigSize(c) /\ c'.width = c.width
         /\ Size(fc') = Size(fc) /\ fc'.width = fc.width
         /\ Size(b') = Size(b) /\ b'.width = b.width
<1>1. /\ c' = IF Size(Structured(c)).err = "none" THEN [c EXCEPT !.hash = h] ELSE c
      /\ fc' = Tuned(fc, h) /\ b' = IF Validate(b) = "none" THEN Tuned(b, h) ELSE b
      /\ UNCHANGED <<incomplete, forked>> /\ calls' \in 0 .. MaxCalls
  BY CalledTypes DEF WithRecommendedHash, ConfigInv
<1>2. c \in LegacyForm /\ fc \in StructuredForm /\ b \in StructuredForm /\ Pure(fc) /\ Pure(b)
  BY DEF ConfigInv, ConfigTypeOK
<1>3. /\ fc' = IF Validate(fc) = "none" THEN [fc EXCEPT !.hash = h] ELSE fc
      /\ b' = IF Validate(b) = "none" THEN [b EXCEPT !.hash = h] ELSE b
  BY <1>1, <1>2, TunedHash
<1>4. /\ fc' \in StructuredForm /\ Pure(fc') /\ Size(fc') = Size(fc) /\ fc'.width = fc.width
      /\ b' \in StructuredForm /\ Pure(b') /\ Size(b') = Size(b) /\ b'.width = b.width
  BY <1>1, <1>2, TunedHash
<1>5. /\ c' \in LegacyForm /\ c'.width = c.width /\ c'.hashCount = c.hashCount
      /\ c'.capacity = c.capacity /\ c'.fpr = c.fpr /\ c'.bits = c.bits /\ c'.bounds = c.bounds
  BY <1>1, <1>2 DEF LegacyForm
<1>6. ConfigSize(c') = ConfigSize(c)
  BY <1>5 DEF ConfigSize, ConfigValidate, TargetError, TargetLayout, ExplicitLayout,
     isExplicitSizing, isIncompleteExplicitSizing
<1>7. Together => Together'
  <2> SUFFICES ASSUME Together PROVE Together'
    OBVIOUS
  <2>1. fc = Structured(c) /\ Size(Structured(c)).err = Validate(fc)
    BY DEF Together, Size
  <2>2. Structured([c EXCEPT !.hash = h]) = [Structured(c) EXCEPT !.hash = h]
    BY <1>2, StructuredWith DEF LegacyForm, With, TargetSizing, ExplicitSizing,
       ConfigMode, isExplicitSizing, isIncompleteExplicitSizing
  <2>3. fc' = Structured(c')
    BY <1>1, <1>3, <2>1, <2>2
  <2>4. fc'.mode = fc.mode /\ fc'.bits = fc.bits
    BY <1>2, <1>3 DEF StructuredForm
  <2> QED BY <1>1, <1>3, <1>5, <2>3, <2>4 DEF Together
<1>8. ConfigInv'
  BY <1>1, <1>4, <1>5, <1>7 DEF ConfigInv, ConfigTypeOK
<1> QED BY <1>4, <1>5, <1>6, <1>8

\* To the other form and back: the structured form comes back as it was, and the
\* flat one without what its mode does not read.
LEMMA RoundTripStep ==
  ASSUME ConfigInv, RoundTrip
  PROVE  ConfigInv'
<1>1. /\ c' = Legacy(Structured(c)) /\ fc' = Structured(Legacy(fc)) /\ b' = b
      /\ UNCHANGED <<incomplete, forked>> /\ calls' \in 0 .. MaxCalls
  BY CalledTypes DEF RoundTrip, ConfigInv
<1>2. c \in LegacyForm /\ fc \in StructuredForm /\ b \in StructuredForm /\ Pure(fc) /\ Pure(b)
  BY DEF ConfigInv, ConfigTypeOK
<1>3. Structured(c) \in StructuredForm /\ Pure(Structured(c))
  BY <1>2, StructuredFields
<1>4. c' \in LegacyForm /\ Legacy(fc) \in LegacyForm
  BY <1>1, <1>2, <1>3, LegacyFields
<1>5. fc' \in StructuredForm /\ Pure(fc')
  BY <1>1, <1>4, StructuredFields
<1>6. Together => Together'
  <2> SUFFICES ASSUME Together PROVE Together'
    OBVIOUS
  <2>1. fc = Structured(c) /\ c' = Legacy(fc)
    BY <1>1 DEF Together
  <2>2. fc' = fc
    <3>1. fc.mode = "target" \/ fc.bits # 0
      BY <1>2 DEF Together, StructuredForm
    <3> QED BY <1>1, <1>2, <3>1, ThereAndBack
  <2>3. c'.hashCount = fc.hashCount
    BY <1>2, <2>1, LegacyFields
  <2>4. fc.mode = "target" => c'.hashCount = 0
    BY <1>2, <2>3 DEF Pure
  <2> QED BY <1>1, <2>1, <2>2, <2>4 DEF Together
<1> QED BY <1>1, <1>2, <1>4, <1>5, <1>6 DEF ConfigInv, ConfigTypeOK

\* The same without the width, which both forms then have at its default.
LEMMA FilterRoundTripStep ==
  ASSUME ConfigInv, FilterRoundTrip
  PROVE  ConfigInv'
<1>1. /\ c' = FlatFilter(StructuredFilter(c)) /\ fc' = StructuredFilter(FlatFilter(fc))
      /\ forked' = TRUE /\ UNCHANGED <<b, incomplete>> /\ calls' \in 0 .. MaxCalls
  BY CalledTypes DEF FilterRoundTrip, ConfigInv
<1>2. c \in LegacyForm /\ fc \in StructuredForm /\ b \in StructuredForm /\ Pure(fc) /\ Pure(b)
  BY DEF ConfigInv, ConfigTypeOK
<1> DEFINE s == StructuredFilter(c)
<1>3. s \in StructuredForm /\ Pure(s) /\ s = [Structured(c) EXCEPT !.width = 0] /\ s.width = 0
  <2>1. Structured(c) \in StructuredForm /\ Pure(Structured(c))
    BY <1>2, StructuredFields
  <2>2. s = [Structured(c) EXCEPT !.width = 0]
    BY <1>2, WidthAside
  <2> QED BY <2>1, <2>2, EmptyArguments DEF StructuredForm, Pure
<1>4. c' \in LegacyForm
  BY <1>1, <1>3, WidthAside
<1>5. fc' \in StructuredForm /\ Pure(fc')
  <2>1. FlatFilter(fc) \in LegacyForm
    BY <1>2, WidthAside
  <2>2. Structured(FlatFilter(fc)) \in StructuredForm /\ Pure(Structured(FlatFilter(fc)))
    BY <2>1, StructuredFields
  <2>3. fc' = [Structured(FlatFilter(fc)) EXCEPT !.width = 0]
    BY <1>1, <2>1, WidthAside
  <2> QED BY <2>2, <2>3, EmptyArguments DEF StructuredForm, Pure
<1>6. Together => Together'
  <2> SUFFICES ASSUME Together PROVE Together'
    OBVIOUS
  <2>1. fc = Structured(c) /\ (fc.mode = "target" \/ fc.bits # 0)
    BY <1>2 DEF Together, StructuredForm
  <2>2. s = [fc EXCEPT !.width = 0]
    BY <1>3, <2>1
  <2>3. fc' = s
    <3>1. StructuredFilter(FlatFilter(fc)) = [Structured(Legacy(fc)) EXCEPT !.width = 0]
      BY <1>2, WidthAside
    <3> QED BY <1>1, <1>2, <2>1, <2>2, <3>1, ThereAndBack
  <2>4. s.mode = fc.mode /\ s.bits = fc.bits /\ s.hashCount = fc.hashCount
    BY <1>2, <2>2 DEF StructuredForm
  <2>5. c' = [Legacy(s) EXCEPT !.width = 0] /\ Legacy(s) \in LegacyForm /\ Legacy(s).width = 0
        /\ Legacy(s).hashCount = s.hashCount
    BY <1>1, <1>3, WidthAside, LegacyFields
  <2>6. c' = Legacy(s)
    BY <2>5 DEF LegacyForm
  <2>7. Structured(c') = s
    BY <1>3, <2>1, <2>4, <2>6, ThereAndBack
  <2>8. fc'.mode = "target" => c'.hashCount = 0
    BY <1>3, <2>3, <2>5, <2>6 DEF Pure
  <2> QED BY <1>1, <2>1, <2>3, <2>4, <2>7, <2>8 DEF Together
<1> QED BY <1>1, <1>2, <1>4, <1>5, <1>6 DEF ConfigInv, ConfigTypeOK

\* No call disturbs the invariant.
LEMMA ConfigStep == ConfigInv /\ [ConfigNext]_configVars => ConfigInv'
<1> SUFFICES ASSUME ConfigInv, [ConfigNext]_configVars PROVE ConfigInv'
  OBVIOUS
<1>1. CASE UNCHANGED configVars
  BY <1>1 DEF configVars, ConfigInv, ConfigTypeOK, Together
<1> QED
  BY <1>1, HashStep, WidthStep, BoundsStep, CapacityStep, RateStep, TuneStep, RoundTripStep,
     FilterRoundTripStep DEF ConfigNext

-----------------------------------------------------------------------------

\* The invariant behind the theorems below.
THEOREM ConfigInvariant == ConfigSpec => []ConfigInv
BY ConfigStart, ConfigStep, PTL DEF ConfigSpec

\* Every form stays one that the code can hold.
THEOREM ConfigTypeCorrect == ConfigSpec => []ConfigTypeOK
<1>1. ConfigInv => ConfigTypeOK
  BY DEF ConfigInv
<1> QED BY <1>1, ConfigInvariant, PTL

\* Any calls, conversions and tunings leave the three forms making one filter, or
\* failing alike.
THEOREM FormsAlwaysAgree == ConfigSpec => []FormsAgree
<1>1. ConfigInv => FormsAgree
  BY DEF ConfigInv, Together, FormsAgree
<1> QED BY <1>1, ConfigInvariant, PTL

\* Converting a counting configuration loses nothing that a filter is made from, in
\* any state and whatever mode the flat form infers, and converting its filter
\* alone nothing but the counter width.
THEOREM ConvertingKeepsFilter == ConfigSpec => []ConversionsKeepFilter
<1>1. ConfigInv => ConversionsKeepFilter
  <2> SUFFICES ASSUME ConfigInv PROVE ConversionsKeepFilter
    OBVIOUS
  <2>1. c \in LegacyForm /\ fc \in StructuredForm /\ Pure(fc)
    BY DEF ConfigInv, ConfigTypeOK
  <2>2. ASSUME Validate(fc) = "none"
        PROVE  LET back == StructuredFilter(FlatFilter(fc))
               IN  /\ Filter(Structured(Legacy(fc))) = Filter(fc)
                   /\ Size(back) = Size(fc) /\ back.hash = fc.hash
    <3> DEFINE back == StructuredFilter(FlatFilter(fc))
    <3>1. Structured(Legacy(fc)) = fc
      BY <2>1, <2>2, ThereAndBack
    <3>2. back = [fc EXCEPT !.width = 0]
      BY <2>1, <3>1, WidthAside
    <3>3. /\ back.mode = fc.mode /\ back.capacity = fc.capacity /\ back.fpr = fc.fpr
          /\ back.bounds = fc.bounds /\ back.bits = fc.bits /\ back.hashCount = fc.hashCount
          /\ back.hash = fc.hash
      BY <2>1, <3>2 DEF StructuredForm
    <3>4. Size(back) = Size(fc)
      <4> HIDE DEF back
      <4> QED BY <3>3 DEF Size, Validate, TargetError, TargetLayout, ExplicitLayout
    <3> QED BY <3>1, <3>3, <3>4
  <2> QED BY <2>1, <2>2, SizesAgree DEF ConversionsKeepFilter
<1> QED BY <1>1, ConfigInvariant, PTL

\* Tuning the hash changes neither size nor width (config.go:22).
THEOREM TuningIsLayoutFree == ConfigSpec => TuningKeepsLayout
<1>1. ASSUME ConfigInv, ConfigNext, call' = "tune"
      PROVE  /\ ConfigSize(c') = ConfigSize(c) /\ c'.width = c.width
             /\ Size(fc') = Size(fc) /\ fc'.width = fc.width
             /\ Size(b') = Size(b) /\ b'.width = b.width
  <2>1. \E h \in Hash : WithRecommendedHash(h)
    BY <1>1 DEF ConfigNext, Called, WithHash, WithCounterWidth, WithSizingBounds,
       WithExpectedCapacity, WithFalsePositiveRate, RoundTrip, FilterRoundTrip
  <2> QED BY <1>1, <2>1, TuneStep
<1>2. ConfigInv /\ [ConfigNext]_configVars =>
        [call' = "tune" =>
           /\ ConfigSize(c') = ConfigSize(c) /\ c'.width = c.width
           /\ Size(fc') = Size(fc) /\ fc'.width = fc.width
           /\ Size(b') = Size(b) /\ b'.width = b.width]_configVars
  BY <1>1
<1> QED BY <1>2, ConfigInvariant, PTL DEF ConfigSpec, TuningKeepsLayout

\* No single call takes a valid flat configuration to the other mode.
THEOREM ModeStaysPut == ConfigSpec => ModeSticks
<1>1. ASSUME ConfigInv, ConfigNext, ConfigValidate(c) = "none"
      PROVE  ConfigMode(c') = ConfigMode(c)
  <2>1. c \in LegacyForm /\ c.bits \in Nat /\ c.hashCount \in Nat
    BY <1>1, EmptyArguments DEF ConfigInv, ConfigTypeOK, LegacyForm
  <2>2. c.bits # 0 \/ (c.bits = 0 /\ c.capacity # 0 /\ c.fpr # "zero")
    BY <1>1, <2>1 DEF ConfigValidate, TargetError, isExplicitSizing, isIncompleteExplicitSizing
  <2>3. CASE RoundTrip \/ FilterRoundTrip
    <3> DEFINE s == Structured(c)
    <3>1. s \in StructuredForm /\ Pure(s)
      BY <2>1, StructuredFields
    <3>2. c'.bits = s.bits /\ c'.hashCount = s.hashCount
      <4>1. CASE RoundTrip
        BY <3>1, <4>1, LegacyFields DEF RoundTrip
      <4>2. CASE FilterRoundTrip
        BY <2>1, <3>1, <4>2, WidthAside DEF FilterRoundTrip, StructuredForm, FlatFilter, Pure
      <4> QED BY <2>3, <4>1, <4>2
    <3>3. CASE c.bits # 0
      <4>1. s.bits = c.bits
        BY <2>1, <3>3, StructuredFields DEF ConfigMode, isExplicitSizing
      <4> QED BY <3>2, <3>3, <4>1 DEF ConfigMode, isExplicitSizing
    <3>4. CASE c.bits = 0
      <4>1. ConfigMode(c) = "target"
        BY <2>2, <3>4 DEF ConfigMode, isExplicitSizing, isIncompleteExplicitSizing
      <4>2. s.bits = 0 /\ s.hashCount = 0
        BY <2>1, <3>1, <4>1, StructuredFields DEF Pure
      <4> QED BY <3>2, <4>1, <4>2 DEF ConfigMode, isExplicitSizing, isIncompleteExplicitSizing
    <3> QED BY <3>3, <3>4
  <2>4. CASE ~(RoundTrip \/ FilterRoundTrip)
    <3>1. /\ c'.bits = c.bits
          /\ (c'.capacity = c.capacity \/ c'.fpr = c.fpr)
      BY <1>1, <2>1, <2>4 DEF ConfigNext, WithHash, WithRecommendedHash, WithCounterWidth,
         WithSizingBounds, WithExpectedCapacity, WithFalsePositiveRate, LegacyForm
    <3> QED BY <2>2, <3>1 DEF ConfigMode, isExplicitSizing, isIncompleteExplicitSizing
  <2> QED BY <2>3, <2>4
<1>2. ConfigInv /\ [ConfigNext]_configVars =>
        [ConfigValidate(c) = "none" => ConfigMode(c') = ConfigMode(c)]_configVars
  BY <1>1
<1> QED BY <1>2, ConfigInvariant, PTL DEF ConfigSpec, ModeSticks
=============================================================================
