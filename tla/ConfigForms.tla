---------------------------- MODULE ConfigForms ----------------------------
(***************************************************************************)
(* The three forms in which a caller describes a filter, taken through the *)
(* same calls side by side:                                                *)
(*   c    bloom.Config, one flat record whose mode is inferred (config.go) *)
(*   fc   bloom.CountingConfig, a FilterConfig with a mode field and the   *)
(*        counter width (filter_config.go)                                 *)
(*   b    setup.Builder (setup/setup.go), which filterflags fills from a   *)
(*        command line                                                     *)
(* The sizing formulas are functions of what they are given, so a layout   *)
(* is known by that.  A rate is known by where it lies.                    *)
(***************************************************************************)
EXTENDS Integers

CONSTANTS
  Capacity, Bits, HashCount, MinBits, MaxK, Width,  \* arguments callers give
  Hash,      \* hash settings, a strategy with a seed
  MaxCalls   \* how many calls follow the construction

Rate == {"zero", "inside", "one", "NaN"}

ASSUME ArgumentAssumption ==
  /\ \A set \in {Capacity, Bits, HashCount, MinBits, MaxK, Width} : 0 \in set /\ set \subseteq Nat
  /\ MaxCalls \in Nat

VARIABLES
  c, fc, b,
  incomplete,  \* history: made explicit without a bit count
  forked,      \* history: b did not take part in some call
  call,        \* the last call
  calls

configVars == <<c, fc, b, incomplete, forked, call, calls>>

Bounds == [minBits : MinBits, maxK : MaxK]
NoBounds == [minBits |-> 0, maxK |-> 0]

LegacyForm == [capacity : Capacity, fpr : Rate, bits : Bits, hashCount : HashCount,
               bounds : Bounds, width : Width, hash : Hash]
StructuredForm == [mode : {"target", "explicit"}, capacity : Capacity, fpr : Rate, bounds : Bounds,
                   bits : Bits, hashCount : HashCount, width : Width, hash : Hash]

ConfigTypeOK ==
  /\ c \in LegacyForm /\ fc \in StructuredForm /\ b \in StructuredForm
  /\ incomplete \in BOOLEAN /\ forked \in BOOLEAN
  /\ calls \in 0 .. MaxCalls

-----------------------------------------------------------------------------
(* Sizing of the structured forms.                                         *)

\* NaN is neither at most 0 nor at least 1.
TargetError(s) ==
  IF s.capacity = 0 THEN "capacity" ELSE IF s.fpr \in {"zero", "one"} THEN "fpr" ELSE "none"

Resolved(bounds) ==
  [minBits |-> IF bounds.minBits = 0 THEN 64 ELSE bounds.minBits,
   maxK |-> IF bounds.maxK = 0 THEN 32 ELSE bounds.maxK]

\* What m and k are computed from: the target's inputs, or the two numbers given.
TargetLayout(s) ==
  [capacity |-> s.capacity, fpr |-> s.fpr, bounds |-> Resolved(s.bounds), m |-> 0, k |-> 0]
ExplicitLayout(s) ==
  [capacity |-> 0, fpr |-> "zero", bounds |-> NoBounds,
   m |-> s.bits, k |-> IF s.hashCount = 0 THEN 1 ELSE s.hashCount]
NoLayout == [capacity |-> 0, fpr |-> "zero", bounds |-> NoBounds, m |-> 0, k |-> 0]

Validate(s) ==
  IF s.mode = "target" THEN TargetError(s) ELSE IF s.bits = 0 THEN "bits" ELSE "none"

Size(s) ==
  [err |-> Validate(s),
   layout |-> IF Validate(s) # "none" THEN NoLayout
              ELSE IF s.mode = "target" THEN TargetLayout(s) ELSE ExplicitLayout(s)]

TargetSizing(n, p, bounds) ==
  [mode |-> "target", capacity |-> n, fpr |-> p, bounds |-> bounds, bits |-> 0, hashCount |-> 0]
ExplicitSizing(m, k) ==
  [mode |-> "explicit", capacity |-> 0, fpr |-> "zero", bounds |-> NoBounds, bits |-> m, hashCount |-> k]

-----------------------------------------------------------------------------
(* The flat form infers its mode.                                          *)

\* Variant: the rate is not looked at.
isIncompleteNoRate(x) == x.bits = 0 /\ x.hashCount > 0 /\ x.capacity = 0

isIncompleteExplicitSizing(x) ==
  x.bits = 0 /\ x.hashCount > 0 /\ x.capacity = 0 /\ x.fpr = "zero"

isExplicitSizing(x) == x.bits # 0 \/ isIncompleteExplicitSizing(x)

ConfigMode(x) == IF isExplicitSizing(x) THEN "explicit" ELSE "target"

ConfigValidate(x) ==
  IF isIncompleteExplicitSizing(x) THEN "bits"
  ELSE IF isExplicitSizing(x) THEN "none" ELSE TargetError(x)

ConfigSize(x) ==
  [err |-> ConfigValidate(x),
   layout |-> IF ConfigValidate(x) # "none" THEN NoLayout
              ELSE IF isExplicitSizing(x) THEN ExplicitLayout(x) ELSE TargetLayout(x)]

-----------------------------------------------------------------------------
(* Conversions.  Each keeps the branch its mode reads, and drops the other.  *)
(* The pair of a FilterConfig, which has no counter width, drops that too;   *)
(* the pair of a CountingConfig puts it back.                                *)

With(sizing, width, hash) ==
  [mode |-> sizing.mode, capacity |-> sizing.capacity, fpr |-> sizing.fpr, bounds |-> sizing.bounds,
   bits |-> sizing.bits, hashCount |-> sizing.hashCount, width |-> width, hash |-> hash]

\* Config.FilterConfig.
StructuredFilter(x) ==
  With(IF ConfigMode(x) = "explicit" THEN ExplicitSizing(x.bits, x.hashCount)
       ELSE TargetSizing(x.capacity, x.fpr, x.bounds), 0, x.hash)

\* Variant: ConfigFromTarget leaves the bounds out.
FlatFilterUnbounded(s) ==
  [capacity |-> s.capacity, fpr |-> s.fpr, bits |-> s.bits, hashCount |-> s.hashCount,
   bounds |-> NoBounds, width |-> 0, hash |-> s.hash]

\* FilterConfig.Config: the branch of the mode, the rest empty.
FlatFilter(s) ==
  IF s.mode = "target"
    THEN [capacity |-> s.capacity, fpr |-> s.fpr, bits |-> 0, hashCount |-> 0,
          bounds |-> s.bounds, width |-> 0, hash |-> s.hash]
    ELSE [capacity |-> 0, fpr |-> "zero", bits |-> s.bits, hashCount |-> s.hashCount,
          bounds |-> NoBounds, width |-> 0, hash |-> s.hash]

\* Config.CountingConfig and CountingConfig.Config.
Structured(x) == [StructuredFilter(x) EXCEPT !.width = x.width]
Legacy(s) == [FlatFilter(s) EXCEPT !.width = s.width]

resolvedCounterWidth(w) == IF w = 0 THEN 8 ELSE w

\* The counting filter a structured form makes, or the error it is refused with.
Filter(s) ==
  LET w == resolvedCounterWidth(s.width)
      bad == Validate(s) = "none" /\ w \notin {2, 4, 8, 16, 32, 64}
      err == IF bad THEN "width" ELSE Validate(s)
  IN  [err |-> err, layout |-> IF bad THEN NoLayout ELSE Size(s).layout,
       width |-> IF err = "none" THEN w ELSE 0, hash |-> s.hash]

-----------------------------------------------------------------------------
(* Construction.                                                           *)

Start(sizing, width, hash) ==
  /\ fc = With(sizing, width, hash) /\ b = fc /\ c = Legacy(fc)
  /\ incomplete = (sizing.mode = "explicit" /\ sizing.bits = 0)

\* TargetConfig, TargetCounting, setup.Target; and the explicit ones.
FromConstructors(hash) ==
  \/ \E n \in Capacity, p \in Rate : Start(TargetSizing(n, p, NoBounds), 0, hash)
  \/ \E m \in Bits, k \in HashCount : Start(ExplicitSizing(m, k), 0, hash)

\* filterflags: Config, CountingConfig and the builder they come from; -k without
\* -m, a sizing that is not valid and a width that is not offered are refused.
FromFlags(hash) ==
  \E n \in Capacity, p \in Rate, m \in Bits, k \in HashCount, bounds \in Bounds, w \in Width \ {0} :
    LET sizing == IF m # 0 THEN ExplicitSizing(m, k) ELSE TargetSizing(n, p, bounds)
    IN  /\ m # 0 \/ k = 0
        /\ Filter(With(sizing, w, hash)).err = "none"
        /\ Start(sizing, IF w = 8 THEN 0 ELSE w, hash)

ConfigInit ==
  /\ \E hash \in Hash : FromConstructors(hash) \/ FromFlags(hash)
  /\ forked = FALSE /\ call = "new" /\ calls = 0

-----------------------------------------------------------------------------
(* Options and copy helpers.                                               *)

Called(name) == calls < MaxCalls /\ calls' = calls + 1 /\ call' = name

WithHash(h) ==
  /\ Called("hash")
  /\ c' = [c EXCEPT !.hash = h] /\ fc' = [fc EXCEPT !.hash = h] /\ b' = [b EXCEPT !.hash = h]
  /\ UNCHANGED <<incomplete, forked>>

WithCounterWidth(w) ==
  /\ Called("width")
  /\ c' = [c EXCEPT !.width = w] /\ fc' = [fc EXCEPT !.width = w] /\ b' = [b EXCEPT !.width = w]
  /\ UNCHANGED <<incomplete, forked>>

\* Variant: bounds are only taken by explicit sizing.
BoundedInverted(s, bounds) == IF s.mode = "target" THEN s ELSE [s EXCEPT !.bounds = bounds]

\* The structured forms ignore bounds in explicit mode, the flat one keeps them.
Bounded(s, bounds) == IF s.mode = "target" THEN [s EXCEPT !.bounds = bounds] ELSE s

WithSizingBounds(bounds) ==
  /\ Called("bounds")
  /\ c' = [c EXCEPT !.bounds = bounds] /\ fc' = Bounded(fc, bounds) /\ b' = Bounded(b, bounds)
  /\ UNCHANGED <<incomplete, forked>>

WithExpectedCapacity(n) ==
  /\ Called("capacity")
  /\ c' = [c EXCEPT !.capacity = n]
  /\ fc' = IF fc.mode = "target" THEN [fc EXCEPT !.capacity = n] ELSE fc
  /\ forked' = TRUE
  /\ UNCHANGED <<b, incomplete>>

WithFalsePositiveRate(p) ==
  /\ Called("rate")
  /\ c' = [c EXCEPT !.fpr = p]
  /\ fc' = IF fc.mode = "target" THEN [fc EXCEPT !.fpr = p] ELSE fc
  /\ forked' = TRUE
  /\ UNCHANGED <<b, incomplete>>

\* Variant: the width is not carried over.
TunedNarrow(s, h) ==
  IF ConfigValidate(FlatFilter(s)) = "none"
    THEN [StructuredFilter(FlatFilter(s)) EXCEPT !.hash = h] ELSE s

\* Tuning a structured form takes its FilterConfig through the flat form and
\* back; the width stays where it is.
Tuned(s, h) ==
  IF ConfigValidate(FlatFilter(s)) = "none"
    THEN [StructuredFilter(FlatFilter(s)) EXCEPT !.hash = h, !.width = s.width] ELSE s

\* The tuner picks by the layout alone, so that equal layouts get equal hashes.
\* An invalid configuration is left as it was (the option forms panic instead).
WithRecommendedHash(h) ==
  /\ Called("tune")
  /\ c' = IF Size(Structured(c)).err = "none" THEN [c EXCEPT !.hash = h] ELSE c
  /\ fc' = Tuned(fc, h)
  /\ b' = IF Validate(b) = "none" THEN Tuned(b, h) ELSE b
  /\ UNCHANGED <<incomplete, forked>>

\* A caller converts its counting configuration to the other form and back.
RoundTrip ==
  /\ Called("convert")
  /\ c' = Legacy(Structured(c)) /\ fc' = Structured(Legacy(fc))
  /\ UNCHANGED <<b, incomplete, forked>>

\* Or only the filter of it, and the counters are left at their default width.
FilterRoundTrip ==
  /\ Called("convert filter")
  /\ c' = FlatFilter(StructuredFilter(c)) /\ fc' = StructuredFilter(FlatFilter(fc))
  /\ forked' = TRUE
  /\ UNCHANGED <<b, incomplete>>

ConfigNext ==
  \/ \E h \in Hash : WithHash(h) \/ WithRecommendedHash(h)
  \/ \E w \in Width : WithCounterWidth(w)
  \/ \E bounds \in Bounds : WithSizingBounds(bounds)
  \/ \E n \in Capacity : WithExpectedCapacity(n)
  \/ \E p \in Rate : WithFalsePositiveRate(p)
  \/ RoundTrip \/ FilterRoundTrip

ConfigSpec == ConfigInit /\ [][ConfigNext]_configVars

-----------------------------------------------------------------------------

\* The three forms make the same filter, or are refused with the same error, after
\* any calls and conversions (config.go:97-102, filter_config.go:30-37, setup.go:38-45
\* against one another).  Only a configuration made explicit without a bit count may
\* come apart: see ModeSticks.
FormsAgree ==
  ~incomplete =>
    /\ Filter(Structured(c)) = Filter(fc)
    /\ ~forked => Filter(b) = Filter(fc)

\* Converting never changes the layout or the error: the flat form sizes itself as
\* its structured form does, though the code is written twice, and of a valid
\* structured form the counting pair of conversions keeps the whole filter, and
\* the pair without the width all but that (config.go:289-306 and
\* filter_config.go:94-114, 394-426, 451-464).
ConversionsKeepFilter ==
  /\ ConfigSize(c) = Size(Structured(c))
  /\ Validate(fc) = "none" =>
       LET back == StructuredFilter(FlatFilter(fc))
       IN  /\ Filter(Structured(Legacy(fc))) = Filter(fc)
           /\ Size(back) = Size(fc) /\ back.hash = fc.hash

\* README.md:509 says of legacy configurations that "`cfg.FilterConfig()` and
\* `fc.Config()` round-trip sizing, hash, and counter settings": one that makes a
\* counting filter makes the same one after both.
FilterConfigRoundTrips ==
  LET back == FlatFilter(StructuredFilter(c))
  IN  Filter(Structured(c)).err = "none" => Filter(Structured(back)) = Filter(Structured(c))

\* Tuning the hash changes nothing else, although the structured forms go through
\* the flat one and back (config.go:22 "hash settings do not affect m or k").
TuningKeepsLayout ==
  [][call' = "tune" =>
       /\ ConfigSize(c') = ConfigSize(c) /\ c'.width = c.width
       /\ Size(fc') = Size(fc) /\ fc'.width = fc.width
       /\ Size(b') = Size(b) /\ b'.width = b.width]_configVars

\* No single call takes a valid flat configuration to the other mode: the mode is
\* inferred, so any field may change it (config.go:165-174).
ModeSticks ==
  [][ConfigValidate(c) = "none" => ConfigMode(c') = ConfigMode(c)]_configVars
=============================================================================
