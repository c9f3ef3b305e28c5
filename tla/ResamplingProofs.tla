-------------------------- MODULE ResamplingProofs --------------------------
(***************************************************************************)
(* What the converters keep from call to call, for every set of rates,     *)
(* every size of filter and buffer, every length of stream and every       *)
(* interleaving of the setters' stores with the update's loads: rates and  *)
(* accumulator (Bounded), the balance of inputs and outputs (Books), the   *)
(* settings of a call (SettledInv), the symmetry of the designs, and last  *)
(* delay line, buffer and phase (FlowInv).                                 *)
(***************************************************************************)
EXTENDS Resampling, WellFoundedInduction, TLAPS

\* The ratio of two rates, the smaller over the larger, is positive and at
\* most one: what resamplerSetInRate and resamplerSetOutRate store.
LEMMA RatioInRange ==
  ASSUME NEW i \in Rates, NEW o \in Rates
  PROVE  RatioFor(i, o) \in 1 .. One
<1>1. CASE Faster(i, o)
  <2>1. i <= o  BY <1>1, RatesAssumption DEF Faster
  <2> QED  BY <1>1, <2>1, RatesAssumption DEF RatioFor
<1>2. CASE ~Faster(i, o)
  <2>1. o <= i  BY <1>2, RatesAssumption DEF Faster
  <2> QED  BY <1>2, <2>1, RatesAssumption DEF RatioFor
<1> QED  BY <1>1, <1>2

LEMMA InitBounded == Init => Bounded
<1> SUFFICES ASSUME Init PROVE Bounded  OBVIOUS
<1>1. ratio \in 1 .. One  BY RatioInRange DEF Init
<1>2. kind \in AllKinds  BY KindsAssumption DEF Init
<1>3. TypeOK  BY <1>1, <1>2, OneAssumption DEF Init, Start, TypeOK, NoLocals, Faster
<1>4. RatioSafe  BY <1>1, OneAssumption DEF Init, RatioSafe, NoLocals
<1>5. Narrowing  BY DEF Init, Narrowing, Resamplers
<1>6. AccBounded  BY OneAssumption DEF Init, Start, AccBounded
<1> QED  BY <1>3, <1>4, <1>5, <1>6 DEF Bounded

\* The reader's steps: the loop's arithmetic stays in the range, and a call
\* copies the range with the fields.
LEMMA UpdateBounded == Bounded /\ Update => Bounded'
<1> SUFFICES ASSUME Bounded, Update PROVE Bounded'  OBVIOUS
<1> USE DEF Bounded
<1>1. CASE \E len \in 0 .. MaxCall : Call(len)
  <2> PICK len \in 0 .. MaxCall : Call(len)  BY <1>1
  <2>1. TypeOK'  BY DEF TypeOK, Call, place, settings, setter, outputs
  <2>2. RatioSafe'  BY DEF RatioSafe, Call, settings
  <2>3. Narrowing'  BY DEF Narrowing, Call, settings
  <2>4. AccBounded'  BY DEF AccBounded, Call, place
  <2> QED  BY <2>1, <2>2, <2>3, <2>4
<1>2. CASE Branch
  <2>1. TypeOK'  BY <1>2 DEF TypeOK, Branch, place, settings, setter, outputs
  <2>2. RatioSafe'  BY <1>2 DEF TypeOK, RatioSafe, Branch, settings
  <2>3. Narrowing'  BY <1>2 DEF Narrowing, Branch, settings
  <2>4. AccBounded'  BY <1>2 DEF TypeOK, AccBounded, Branch, place
  <2> QED  BY <2>1, <2>2, <2>3, <2>4
<1>3. CASE Keep
  <2>0. l'.acc = Spent(l.acc + l.ratio) /\ l'.ratio = l.ratio /\ l'.up = l.up
    <3>1. PICK a, h, p, b : /\ a = Spent(l.acc + l.ratio)
                            /\ l' = [l EXCEPT !.acc = a, !.head = h, !.phase = p, !.buf = b]
      BY <1>3 DEF Keep
    <3>2. l'.acc = a  BY <3>1 DEF TypeOK
    <3>3. l'.ratio = l.ratio  BY <3>1 DEF TypeOK
    <3>4. l'.up = l.up  BY <3>1 DEF TypeOK
    <3> QED  BY <3>1, <3>2, <3>3, <3>4
  <2>1. l'.acc = l.acc + l.ratio - One  BY <2>0, OneAssumption DEF Spent, TypeOK
  <2>2. l.acc \in -One .. One /\ l.acc + l.ratio >= 0
    BY <1>3, OneAssumption DEF TypeOK, AccBounded, RatioSafe, Keep, Take, Due
  <2>3. TypeOK'  BY <1>3, <2>0, <2>1, OneAssumption DEF TypeOK, Keep, Take, Emit, place, settings, setter
  <2>4. RatioSafe'  BY <1>3, <2>0 DEF RatioSafe, Keep, settings
  <2>5. Narrowing'  BY <1>3 DEF Narrowing, Keep, settings
  <2>6. AccBounded'
    BY <1>3, <2>0, <2>1, <2>2, OneAssumption DEF TypeOK, RatioSafe, AccBounded, Keep, Take, place
  <2> QED  BY <2>3, <2>4, <2>5, <2>6
<1>4. CASE Skip
  <2>1. l'.acc = l.acc + l.ratio /\ l'.ratio = l.ratio /\ l'.up = l.up
    BY <1>4 DEF TypeOK, Skip
  <2>2. l.acc \in -One .. One /\ l.acc + l.ratio <= 0
    BY <1>4, OneAssumption DEF TypeOK, AccBounded, RatioSafe, Skip, Take, Due
  <2>3. TypeOK'  BY <1>4, <2>1, OneAssumption DEF TypeOK, Skip, Take, place, settings, setter, outputs
  <2>4. RatioSafe'  BY <1>4, <2>1 DEF RatioSafe, Skip, settings
  <2>5. Narrowing'  BY <1>4 DEF Narrowing, Skip, settings
  <2>6. AccBounded'
    BY <1>4, <2>1, <2>2, OneAssumption DEF TypeOK, RatioSafe, AccBounded, Skip, Take, place
  <2> QED  BY <2>3, <2>4, <2>5, <2>6
<1>5. CASE Widen
  <2>1. l'.acc = l.acc - One /\ l'.ratio = l.ratio /\ l'.up = l.up
    BY <1>5 DEF TypeOK, Widen, Spent
  <2>2. TypeOK'
    <3>1. DOMAIN l' = DOMAIN l /\ l'.up \in BOOLEAN  BY <1>5, <2>1 DEF TypeOK, Widen
    <3>2. l'.acc \in Int /\ l'.ratio \in Int  BY <2>1, OneAssumption DEF TypeOK
    <3>3. pc' = "fill" /\ UNCHANGED <<kind, acc, inRate, outRate, up, ratio, spc, count>>
      BY <1>5 DEF Widen, place, settings, setter, outputs
    <3>4. n' \in Nat  BY <1>5 DEF Widen, Take, TypeOK
    <3> QED  BY <3>1, <3>2, <3>3, <3>4 DEF TypeOK
  <2>3. RatioSafe'  BY <1>5, <2>1 DEF RatioSafe, Widen, settings
  <2>4. Narrowing'  BY <1>5 DEF Narrowing, Widen, settings
  <2>5. AccBounded'
    BY <1>5, <2>1, OneAssumption DEF TypeOK, AccBounded, Widen, Take, place
  <2> QED  BY <2>2, <2>3, <2>4, <2>5
<1>6. CASE Fill
  <2>1. l'.acc = l.acc + l.ratio /\ l'.ratio = l.ratio /\ l'.up = l.up
    BY <1>6 DEF TypeOK, Fill
  <2>2. TypeOK'  BY <1>6, <2>1 DEF TypeOK, Fill, Emit, place, settings, setter
  <2>3. RatioSafe'  BY <1>6, <2>1 DEF RatioSafe, Fill, settings
  <2>4. Narrowing'  BY <1>6 DEF Narrowing, Fill, settings
  <2>5. AccBounded'
    BY <1>6, <2>1, OneAssumption DEF TypeOK, RatioSafe, AccBounded, Fill, place
  <2> QED  BY <2>2, <2>3, <2>4, <2>5
<1>7. CASE FillDone
  <2>1. l'.acc = l.acc /\ l'.ratio = l.ratio /\ l'.up = l.up
    BY <1>7 DEF TypeOK, FillDone
  <2>2. TypeOK'  BY <1>7, <2>1 DEF TypeOK, FillDone, place, settings, setter, outputs
  <2>3. RatioSafe'  BY <1>7, <2>1 DEF RatioSafe, FillDone, settings
  <2>4. Narrowing'  BY <1>7 DEF Narrowing, FillDone, settings
  <2>5. AccBounded'
    BY <1>7, <2>1, OneAssumption DEF TypeOK, AccBounded, FillDone, place
  <2> QED  BY <2>2, <2>3, <2>4, <2>5
<1>8. CASE Return
  <2>1. TypeOK'  BY <1>8, OneAssumption DEF TypeOK, Return, NoLocals, settings, setter, outputs
  <2>2. RatioSafe'  BY <1>8, OneAssumption DEF RatioSafe, Return, NoLocals, settings
  <2>3. Narrowing'  BY <1>8 DEF Narrowing, Return, settings
  <2>4. AccBounded'  BY <1>8 DEF AccBounded, Return
  <2> QED  BY <2>1, <2>2, <2>3, <2>4
<1>9. CASE FirUpdate
  <2>1. TypeOK'  BY <1>9 DEF TypeOK, FirUpdate, settings, update, setter
  <2>2. RatioSafe'  BY <1>9 DEF RatioSafe, FirUpdate, settings, update
  <2>3. Narrowing'  BY <1>9 DEF Narrowing, FirUpdate, settings
  <2>4. AccBounded'  BY <1>9 DEF AccBounded, FirUpdate, update
  <2> QED  BY <2>1, <2>2, <2>3, <2>4
<1> QED
  BY <1>1, <1>2, <1>3, <1>4, <1>5, <1>6, <1>7, <1>8, <1>9 DEF Update, Loop

\* The setter's steps: a ratio is stored whole, computed from rates in Rates.
LEMMA SetterBounded == Bounded /\ Setter => Bounded'
<1> SUFFICES ASSUME Bounded, Setter PROVE Bounded'  OBVIOUS
<1> USE DEF Bounded
<1>1. CASE \E r \in Rates : SetInRate(r) \/ SetOutRate(r)
  <2> PICK r \in Rates : SetInRate(r) \/ SetOutRate(r)  BY <1>1
  <2>1. TypeOK'  BY DEF TypeOK, SetInRate, SetOutRate, place, update, outputs
  <2>2. RatioSafe'  BY DEF RatioSafe, SetInRate, SetOutRate, update
  <2>3. Narrowing'  BY DEF Narrowing, SetInRate, SetOutRate, Resamplers
  <2>4. AccBounded'
    BY DEF AccBounded, SetInRate, SetOutRate, place, update
  <2> QED  BY <2>1, <2>2, <2>3, <2>4
<1>6. CASE \E high, low \in Rates : low <= high /\ SetRates(high, low)
  <2> PICK high \in Rates, low \in Rates : low <= high /\ SetRates(high, low)  BY <1>6
  <2>1. TypeOK'  BY DEF TypeOK, SetRates, place, update, outputs
  <2>2. RatioSafe'  BY DEF RatioSafe, SetRates, update
  <2>3. Narrowing'  BY DEF Narrowing, SetRates
  <2>4. AccBounded'  BY DEF AccBounded, SetRates, place, update
  <2> QED  BY <2>1, <2>2, <2>3, <2>4
<1>2. CASE \E r \in Rates, f \in Freqs : r <= inRate /\ SetFreqs(r, f)
  <2> PICK r \in Rates, f \in Freqs : r <= inRate /\ SetFreqs(r, f)  BY <1>2
  <2>1. TypeOK'  BY DEF TypeOK, SetFreqs, place, update, outputs
  <2>2. RatioSafe'  BY DEF RatioSafe, SetFreqs, update
  <2>3. Narrowing'  BY DEF Narrowing, SetFreqs
  <2>4. AccBounded'  BY DEF AccBounded, SetFreqs, place, update
  <2> QED  BY <2>1, <2>2, <2>3, <2>4
<1>3. CASE StoreUp
  <2>1. TypeOK'  BY <1>3 DEF TypeOK, StoreUp, Faster, place, update, outputs
  <2>2. RatioSafe'  BY <1>3 DEF RatioSafe, StoreUp, update
  <2>3. Narrowing'  BY <1>3 DEF Narrowing, StoreUp
  <2>4. AccBounded'  BY <1>3 DEF AccBounded, StoreUp, place, update
  <2> QED  BY <2>1, <2>2, <2>3, <2>4
<1>4. CASE StoreRatio
  <2>1. ratio' \in 1 .. One  BY <1>4, RatioInRange DEF TypeOK, StoreRatio
  <2>2. TypeOK'  BY <1>4, <2>1, OneAssumption DEF TypeOK, StoreRatio, place, update, outputs
  <2>3. RatioSafe'  BY <1>4, <2>1 DEF RatioSafe, StoreRatio, update
  <2>4. Narrowing'  BY <1>4 DEF Narrowing, StoreRatio
  <2>5. AccBounded'  BY <1>4 DEF AccBounded, StoreRatio, place, update
  <2> QED  BY <2>2, <2>3, <2>4, <2>5
<1>5. CASE StoreFreq
  <2>1. TypeOK'  BY <1>5 DEF TypeOK, StoreFreq, place, update, outputs
  <2>2. RatioSafe'  BY <1>5 DEF RatioSafe, StoreFreq, update
  <2>3. Narrowing'  BY <1>5 DEF Narrowing, StoreFreq
  <2>4. AccBounded'  BY <1>5 DEF AccBounded, StoreFreq, place, update
  <2> QED  BY <2>1, <2>2, <2>3, <2>4
<1> QED  BY <1>1, <1>2, <1>3, <1>4, <1>5, <1>6 DEF Setter, Narrower

\* The ratio an update works with is never zero nor above one and its
\* accumulator stays within two units, whatever the setters do meanwhile.
THEOREM RatesBounded == Spec => []Bounded
<1>1. Bounded /\ UNCHANGED vars => Bounded'
  BY DEF Bounded, TypeOK, RatioSafe, Narrowing, AccBounded, vars, place, settings, update, setter, outputs
<1> QED  BY <1>1, InitBounded, UpdateBounded, SetterBounded, PTL DEF Spec, Next
-----------------------------------------------------------------------------
\* The conservation law behind NoDrift: what one sample brings and one output
\* takes, for every length of stream.
LEMMA OneMore ==
  ASSUME NEW a \in Int, NEW b \in Int
  PROVE  a * b \in Int /\ (a + 1) * b = a * b + b
OBVIOUS

LEMMA InitBooks == Init => Books
<1> SUFFICES ASSUME Init PROVE Books  OBVIOUS
<1>1. ratio \in 1 .. One  BY RatioInRange DEF Init
<1>2. 0 * ratio = 0 /\ 0 * One = 0  BY <1>1, OneAssumption
<1>3. n = 0 /\ count = 0 /\ pc = "idle" /\ spc = "idle" /\ acc = Start  BY DEF Init
<1>4. SteadyCalls  BY <1>3 DEF SteadyCalls
<1>5. Widening => OwedUp
  BY <1>2, <1>3, OneAssumption DEF Widening, Resamplers, OwedUp, Current, Start
<1>6. ~Widening => OwedDown
  BY <1>2, <1>3, OneAssumption DEF OwedDown, Current, Start
<1> QED  BY <1>4, <1>5, <1>6 DEF Books

\* A step that moves neither the samples, the outputs nor the accumulator in
\* force leaves what is owed as it was.
LEMMA SameBooks ==
  ASSUME Bounded, Books, steady, kind # "fir", SteadyCalls',
         UNCHANGED <<kind, up, ratio, n, count, steady>>,
         Current' = Current, pc # "fill", pc' # "fill"
  PROVE  Books'
<1>1. Widening' = Widening /\ Start' = Start  BY DEF Widening, Start
<1>2. OwedUp => OwedUp'  BY OneAssumption DEF OwedUp
<1>3. OwedDown => OwedDown'  BY <1>1 DEF OwedDown
<1> QED  BY <1>1, <1>2, <1>3 DEF Books

LEMMA LoopBooks == Bounded /\ Books /\ steady /\ kind # "fir" /\ Loop => Books'
<1> SUFFICES ASSUME Bounded, Books, steady, kind # "fir", Loop PROVE Books'  OBVIOUS
<1>0. /\ TypeOK /\ RatioSafe /\ SteadyCalls
      /\ ratio \in Int /\ n \in Int /\ count \in Int /\ One \in Int /\ Start \in Int
      /\ acc \in Int /\ l.acc \in Int
  BY OneAssumption DEF Bounded, Books, TypeOK, RatioSafe, Start
<1>a. /\ n * ratio \in Int /\ (n + 1) * ratio = n * ratio + ratio
      /\ count * ratio \in Int /\ (count + 1) * ratio = count * ratio + ratio
      /\ n * One \in Int /\ (n + 1) * One = n * One + One
      /\ count * One \in Int /\ (count + 1) * One = count * One + One
  BY <1>0, OneMore
<1>1. CASE Branch
  <2>1. SteadyCalls'
    BY <1>0, <1>1 DEF TypeOK, SteadyCalls, Branch, setter, settings, Widening
  <2>2. Current' = Current  BY <1>1, <1>0 DEF TypeOK, Branch, Current, place
  <2> QED  BY <1>1, <2>1, <2>2, SameBooks DEF Branch, settings, outputs, marks
<1>2. CASE Return
  <2>1. SteadyCalls'  BY <1>0, <1>2 DEF SteadyCalls, Return, setter
  <2>2. Current' = Current  BY <1>2 DEF Return, Current
  <2> QED  BY <1>2, <2>1, <2>2, SameBooks DEF Return, settings, outputs, marks
<1>3. CASE Keep
  <2>0. l'.acc = Spent(l.acc + l.ratio) /\ l'.ratio = l.ratio /\ l'.up = l.up
    <3>1. PICK a, h, p, b : /\ a = Spent(l.acc + l.ratio)
                            /\ l' = [l EXCEPT !.acc = a, !.head = h, !.phase = p, !.buf = b]
      BY <1>3 DEF Keep
    <3>2. l'.acc = a  BY <1>0, <3>1 DEF TypeOK
    <3>3. l'.ratio = l.ratio  BY <1>0, <3>1 DEF TypeOK
    <3>4. l'.up = l.up  BY <1>0, <3>1 DEF TypeOK
    <3> QED  BY <3>1, <3>2, <3>3, <3>4
  <2>1. /\ pc = "loop" /\ pc' = "loop" /\ ~l.up /\ n' = n + 1 /\ count' = count + 1
        /\ UNCHANGED <<kind, up, ratio, spc, steady>>
    BY <1>3 DEF Keep, Take, Emit, settings, setter, marks
  <2>2. ~Widening /\ OwedDown /\ l.ratio = ratio
    BY <1>0, <2>1 DEF SteadyCalls, Books
  <2>3. l.acc + ratio >= 0  BY <1>0, <1>3, <2>2 DEF Keep, Due
  <2>4. Current = l.acc /\ Current' = l.acc + ratio - One
    BY <1>0, <2>0, <2>1, <2>2 DEF Current, Spent
  <2>5. OwedDown'
    <3>1. Start' = Start  BY <2>1 DEF Start
    <3>2. Current' = Start + ((n + 1) * ratio - (count + 1) * One)
      BY <1>0, <1>a, <2>2, <2>4 DEF OwedDown
    <3>3. Current' \in -One .. 0
      BY <1>0, <2>2, <2>3, <2>4 DEF OwedDown, RatioSafe
    <3> QED  BY <2>1, <3>1, <3>2, <3>3 DEF OwedDown
  <2>6. SteadyCalls' /\ ~Widening'
    BY <1>0, <2>0, <2>1, <2>2 DEF SteadyCalls, Widening
  <2> QED  BY <2>1, <2>5, <2>6 DEF Books
<1>4. CASE Skip
  <2>0. l'.acc = l.acc + l.ratio /\ l'.ratio = l.ratio /\ l'.up = l.up
    BY <1>0, <1>4 DEF TypeOK, Skip
  <2>1. /\ pc = "loop" /\ pc' = "loop" /\ ~l.up /\ n' = n + 1 /\ count' = count
        /\ UNCHANGED <<kind, up, ratio, spc, steady>>
    BY <1>4 DEF Skip, Take, outputs, settings, setter, marks
  <2>2. ~Widening /\ OwedDown /\ l.ratio = ratio
    BY <1>0, <2>1 DEF SteadyCalls, Books
  <2>3. l.acc + ratio <= 0  BY <1>0, <1>4, <2>2 DEF Skip, Due
  <2>4. Current = l.acc /\ Current' = l.acc + ratio
    BY <2>0, <2>1, <2>2 DEF Current
  <2>5. OwedDown'
    <3>1. Start' = Start  BY <2>1 DEF Start
    <3>2. Current' = Start + ((n + 1) * ratio - count * One)
      BY <1>0, <1>a, <2>2, <2>4 DEF OwedDown
    <3>3. Current' \in -One .. 0
      BY <1>0, <2>2, <2>3, <2>4 DEF OwedDown, RatioSafe
    <3> QED  BY <2>1, <3>1, <3>2, <3>3 DEF OwedDown
  <2>6. SteadyCalls' /\ ~Widening'
    BY <1>0, <2>0, <2>1, <2>2 DEF SteadyCalls, Widening
  <2> QED  BY <2>1, <2>5, <2>6 DEF Books
<1>5. CASE Widen
  <2>0. l'.acc = l.acc - One /\ l'.ratio = l.ratio /\ l'.up = l.up
    BY <1>0, <1>5 DEF TypeOK, Widen, Spent
  <2>1. /\ pc = "loop" /\ pc' = "fill" /\ l.up /\ n' = n + 1 /\ count' = count
        /\ UNCHANGED <<kind, up, ratio, spc, steady>>
    BY <1>5 DEF Widen, Take, outputs, settings, setter, marks
  <2>2. Widening /\ OwedUp  BY <1>0, <2>1 DEF SteadyCalls, Books
  <2>3. Current = l.acc /\ Current' = l.acc - One  BY <2>0, <2>1 DEF Current
  <2>4. OwedUp'
    <3>1. Current' = count * ratio - (n + 1) * One
      BY <1>0, <1>a, <2>2, <2>3 DEF OwedUp
    <3>2. Current' \in -One .. One
      BY <1>0, <2>1, <2>2, <2>3, OneAssumption DEF OwedUp
    <3> QED  BY <2>1, <3>1, <3>2 DEF OwedUp
  <2>5. SteadyCalls' /\ Widening'
    BY <1>0, <2>0, <2>1, <2>2 DEF SteadyCalls, Widening
  <2> QED  BY <2>1, <2>4, <2>5 DEF Books
<1>6. CASE Fill
  <2>0. l'.acc = l.acc + l.ratio /\ l'.ratio = l.ratio /\ l'.up = l.up
    BY <1>0, <1>6 DEF TypeOK, Fill
  <2>1. /\ pc = "fill" /\ pc' = "fill" /\ l.acc < 0 /\ n' = n /\ count' = count + 1
        /\ UNCHANGED <<kind, up, ratio, spc, steady>>
    BY <1>6 DEF Fill, Emit, settings, setter, marks
  <2>2. Widening /\ OwedUp /\ l.ratio = ratio  BY <1>0, <2>1 DEF SteadyCalls, Books
  <2>3. Current = l.acc /\ Current' = l.acc + ratio
    BY <2>0, <2>1, <2>2 DEF Current
  <2>4. OwedUp'
    <3>1. Current' = (count + 1) * ratio - n * One
      BY <1>0, <1>a, <2>2, <2>3 DEF OwedUp
    <3>2. Current' \in -One .. One
      BY <1>0, <2>1, <2>2, <2>3, OneAssumption DEF OwedUp, RatioSafe
    <3> QED  BY <2>1, <3>1, <3>2 DEF OwedUp
  <2>5. SteadyCalls' /\ Widening'
    BY <1>0, <2>0, <2>1, <2>2 DEF SteadyCalls, Widening
  <2> QED  BY <2>1, <2>4, <2>5 DEF Books
<1>7. CASE FillDone
  <2>0. l'.acc = l.acc /\ l'.ratio = l.ratio /\ l'.up = l.up
    BY <1>0, <1>7 DEF TypeOK, FillDone
  <2>1. /\ pc = "fill" /\ pc' = "loop" /\ l.acc >= 0 /\ n' = n /\ count' = count
        /\ UNCHANGED <<kind, up, ratio, spc, steady>>
    BY <1>7 DEF FillDone, outputs, settings, setter, marks
  <2>2. Widening /\ OwedUp  BY <1>0, <2>1 DEF SteadyCalls, Books
  <2>3. Current = l.acc /\ Current' = l.acc  BY <2>0, <2>1 DEF Current
  <2>4. OwedUp'  BY <1>0, <2>1, <2>2, <2>3, OneAssumption DEF OwedUp
  <2>5. SteadyCalls' /\ Widening'
    BY <1>0, <2>0, <2>1, <2>2 DEF SteadyCalls, Widening
  <2> QED  BY <2>1, <2>4, <2>5 DEF Books
<1> QED  BY <1>1, <1>2, <1>3, <1>4, <1>5, <1>6, <1>7 DEF Loop

LEMMA UpdateBooks == Bounded /\ Books /\ Update => Books'
<1> SUFFICES ASSUME Bounded, Books, Update PROVE Books'  OBVIOUS
<1>1. CASE ~steady \/ kind = "fir"
  <2>1. UNCHANGED <<kind, steady>>
    BY DEF Update, Loop, Call, Branch, Keep, Skip, Widen, Fill, FillDone, Return,
           FirUpdate, marks
  <2> QED  BY <1>1, <2>1 DEF Books
<1>2. CASE steady /\ kind # "fir"
  <2>1. CASE \E len \in 0 .. MaxCall : Call(len)
    <3> PICK len \in 0 .. MaxCall : Call(len)  BY <2>1
    <3>1. SteadyCalls'  BY <1>2 DEF Books, SteadyCalls, Call, setter, settings
    <3>2. Current' = Current  BY DEF Call, Current
    <3> QED  BY <1>2, <3>1, <3>2, SameBooks DEF Call, settings, outputs
  <2>2. CASE Loop  BY <1>2, <2>2, LoopBooks
  <2>3. CASE FirUpdate  BY <1>2, <2>3 DEF FirUpdate
  <2> QED  BY <2>1, <2>2, <2>3 DEF Update
<1> QED  BY <1>1, <1>2

\* A setter ends the steady state before it stores anything.
LEMMA SetterBooks == Bounded /\ Books /\ Setter => Books'
<1> SUFFICES ASSUME Bounded, Books, Setter PROVE Books'  OBVIOUS
<1>1. CASE spc = "idle"
  <2>1. steady' = FALSE
    BY <1>1 DEF Setter, Narrower, SetInRate, SetOutRate, SetRates, SetFreqs, StoreUp, StoreRatio,
                StoreFreq
  <2> QED  BY <2>1 DEF Books
<1>2. CASE spc # "idle"
  <2>1. UNCHANGED <<kind, steady>>
    BY <1>2 DEF Setter, Narrower, SetInRate, SetOutRate, SetRates, SetFreqs, StoreUp, StoreRatio,
                StoreFreq, marks
  <2>2. ~steady \/ kind = "fir"  BY <1>2 DEF Books, SteadyCalls
  <2> QED  BY <2>1, <2>2 DEF Books
<1> QED  BY <1>1, <1>2

\* The balance holds in every reachable state.
LEMMA StaysOnBooks == Spec => []Books
<1>1. Books /\ UNCHANGED vars => Books'
  BY DEF Books, SteadyCalls, Widening, OwedUp, OwedDown, Current, Start, vars, place,
         settings, update, setter, outputs, marks
<1> QED  BY RatesBounded, <1>1, InitBooks, UpdateBooks, SetterBooks, PTL DEF Spec, Next

\* With unchanged rates a converter's outputs never drift from its inputs
\* times the ratio, over streams and calls of any length.
THEOREM NeverDrifts == Spec => []NoDrift
<1>1. Bounded /\ Books => NoDrift
  <2> SUFFICES ASSUME Bounded, Books, pc = "idle", steady, kind # "fir"
               PROVE  IF kind \in Resamplers /\ up THEN Near(count * ratio - n * One)
                                                  ELSE Near(n * ratio - count * One)
    BY DEF NoDrift
  <2>0. ratio \in Int /\ n \in Int /\ count \in Int /\ One \in Int
    BY OneAssumption DEF Bounded, TypeOK
  <2>a. n * ratio \in Int /\ count * ratio \in Int /\ n * One \in Int /\ count * One \in Int
    BY <2>0, OneMore
  <2>1. CASE Widening
    <3>1. OwedUp  BY <2>1 DEF Books
    <3> QED  BY <2>0, <2>a, <2>1, <3>1 DEF OwedUp, Widening, Near
  <2>2. CASE ~Widening
    <3>1. OwedDown  BY <2>2 DEF Books
    <3> QED  BY <2>0, <2>a, <2>2, <3>1 DEF OwedDown, Widening, Near, Start
  <2> QED  BY <2>1, <2>2
<1> QED  BY RatesBounded, StaysOnBooks, <1>1, PTL
-----------------------------------------------------------------------------
\* What the steps of an update do to the settings it works with.
LEMMA LoopKeepsSettings ==
  ASSUME Bounded, Loop
  PROVE  /\ UNCHANGED <<kind, settings, setter, fresh>> /\ pc # "idle"
         /\ pc' # "idle" => l'.ratio = l.ratio
         /\ \/ pc' \in {"loop", "fill"} => l'.up = l.up /\ pc \in {"loop", "fill"}
            \/ l'.up = (kind \in Resamplers /\ up)
<1> USE DEF Bounded, TypeOK, settings, setter, marks
<1>1. CASE Branch  BY <1>1 DEF Branch
<1>2. CASE Keep
  <2>1. PICK a, h, p, b : l' = [l EXCEPT !.acc = a, !.head = h, !.phase = p, !.buf = b]
    BY <1>2 DEF Keep
  <2>2. l'.ratio = l.ratio /\ l'.up = l.up  BY <2>1
  <2> QED  BY <1>2, <2>2 DEF Keep, Take
<1>3. CASE Skip  BY <1>3 DEF Skip, Take
<1>4. CASE Widen  BY <1>4 DEF Widen, Take
<1>5. CASE Fill  BY <1>5 DEF Fill
<1>6. CASE FillDone  BY <1>6 DEF FillDone
<1>7. CASE Return  BY <1>7 DEF Return
<1> QED  BY <1>1, <1>2, <1>3, <1>4, <1>5, <1>6, <1>7 DEF Loop

\* Every store of a setter and every load of an update keeps it.
LEMMA SettledStep == Bounded /\ SettledInv /\ [Next]_vars => SettledInv'
<1> SUFFICES ASSUME Bounded, SettledInv, [Next]_vars PROVE SettledInv'  OBVIOUS
<1> USE DEF SettledInv
<1>1. CASE \E len \in 0 .. MaxCall : Call(len)
  <2> PICK len \in 0 .. MaxCall : Call(len)  BY <1>1
  <2>1. l'.ratio = ratio /\ pc' = "called" /\ fresh' = (spc = "idle")  BY DEF Call
  <2> QED  BY <2>1 DEF Call, settings, setter
<1>2. CASE Loop
  <2>1. /\ UNCHANGED <<kind, inRate, outRate, up, ratio, spc, fresh>> /\ pc # "idle"
        /\ pc' # "idle" => l'.ratio = l.ratio
        /\ \/ pc' \in {"loop", "fill"} => l'.up = l.up /\ pc \in {"loop", "fill"}
           \/ l'.up = (kind \in Resamplers /\ up)
    BY <1>2, LoopKeepsSettings DEF settings, setter
  <2>2. fresh' /\ pc' \in {"loop", "fill"} /\ kind' \in Resamplers => l'.up = up'
    BY <2>1 DEF Bounded, TypeOK
  <2> QED  BY <2>1, <2>2 DEF RatioFor, Faster
<1>3. CASE FirUpdate
  BY <1>3 DEF FirUpdate, settings, update, setter, marks
<1>4. CASE \E r \in Rates : SetInRate(r) \/ SetOutRate(r)
  BY <1>4 DEF SetInRate, SetOutRate, update, Resamplers
<1>5. CASE Narrower
  BY <1>5 DEF Narrower, SetRates, SetFreqs, update, Resamplers
<1>6. CASE StoreUp  BY <1>6 DEF StoreUp, update, marks
<1>7. CASE StoreRatio  BY <1>7 DEF StoreRatio, update, marks
<1>8. CASE StoreFreq  BY <1>8 DEF StoreFreq, update, marks
<1>9. CASE UNCHANGED vars  BY <1>9 DEF vars, settings, update, setter, marks
<1> QED  BY <1>1, <1>2, <1>3, <1>4, <1>5, <1>6, <1>7, <1>8, <1>9 DEF Next, Update, Setter

\* A call that no setter met works with the ratio and the direction that belong
\* to the rates in force, although they are stored and loaded one by one.
THEOREM CallsSettle == Spec => []Settled
<1>1. Init => SettledInv  BY DEF Init, SettledInv
<1>2. Bounded /\ SettledInv => Settled  BY DEF SettledInv, Settled
<1> QED  BY RatesBounded, <1>1, <1>2, SettledStep, PTL DEF Spec
-----------------------------------------------------------------------------
\* The size a design gets is odd and has a middle, whatever was asked for.
LEMMA OddHasCenter ==
  ASSUME NEW asked \in Nat
  PROVE  Odd(asked) \in Nat /\ Odd(asked) > 0 /\ Odd(asked) = 2 * Center(Odd(asked)) + 1
<1>1. CASE asked % 2 = 0  BY <1>1 DEF Odd, Center
<1>2. CASE asked % 2 # 0  BY <1>2 DEF Odd, Center
<1> QED  BY <1>1, <1>2

\* The distance from the middle is the same on both sides.
LEMMA Mirror == ASSUME NEW i \in Int PROVE Distance(-i) = Distance(i)
BY DEF Distance

\* What a design computes for an index depends on its distance from the middle.
LEMMA DesignsSymmetric ==
  ASSUME NEW asked \in Nat, NEW d \in Designs, NEW w \in Windows
  PROVE  Symmetric(Fir(d, asked, w), Odd(asked))
<1> DEFINE size == Odd(asked)
           c    == Center(size)
<1>1. size \in Nat /\ size > 0 /\ c \in Int /\ size - 1 = 2 * c
  BY OddHasCenter DEF Center
<1> HIDE DEF size, c
<1> SUFFICES ASSUME NEW idx \in 0 .. size - 1
             PROVE  Fir(d, asked, w)[idx] = Fir(d, asked, w)[size - 1 - idx]
  BY DEF Symmetric, size
<1> DEFINE i == idx - c
           j == size - 1 - idx
<1>2. i \in Int /\ j \in 0 .. size - 1 /\ j - c = -i
  BY <1>1
<1>3. Distance(j - c) = Distance(i) /\ (j - c = 0 <=> i = 0)
  BY <1>2, Mirror
<1>4. /\ LPCoeff(j - c) = LPCoeff(i) /\ HPCoeff(j - c) = HPCoeff(i)
      /\ BPCoeff(j - c) = BPCoeff(i)
  BY <1>3 DEF LPCoeff, HPCoeff, BPCoeff, Edge
<1>5. Window(w, size, j) = Window(w, size, idx)
  <2>1. 2 * j - (size - 1) = -(2 * idx - (size - 1)) /\ 2 * idx - (size - 1) \in Int
    BY <1>1
  <2>2. Distance(2 * j - (size - 1)) = Distance(2 * idx - (size - 1))
    BY <2>1, Mirror
  <2> QED  BY <2>2 DEF Window
<1> DEFINE coeff(k) == CASE d = "LP" -> LPCoeff(k - c)
                         [] d = "HP" -> HPCoeff(k - c)
                         [] d = "BP" -> BPCoeff(k - c)
<1>6. \A k \in 0 .. size - 1 : Fir(d, asked, w)[k] = <<coeff(k), Window(w, size, k)>>
  BY DEF Fir, size, c
<1>7. coeff(j) = coeff(idx)
  BY <1>4
<1> HIDE DEF coeff, i
<1> QED  BY <1>2, <1>5, <1>6, <1>7

\* Every size the library is asked for gives linear phase, since size |= 1
\* makes it odd (filter.c and samplerate.c), also the one without a window.
THEOREM PhaseIsLinear == LinearPhase
BY DesignsSymmetric, SizeAssumption DEF LinearPhase
-----------------------------------------------------------------------------
\* Every set of natural numbers with a member has a least one.
Less == {p \in Nat \X Nat : p[1] < p[2]}

LEMMA LessWellFounded == IsWellFoundedOn(Less, Nat)
BY NatLessThanWellFounded DEF OpToRel, Less

LEMMA Least ==
  ASSUME NEW T, T \subseteq Nat, T # {}
  PROVE  \E m \in T : \A k \in T : m <= k
<1>1. PICK m \in T : \A k \in T : <<k, m>> \notin Less
  BY ONLY LessWellFounded, WFMin, T \subseteq Nat, T # {}, Zenon
<1>2. \A k \in T : ~ (k < m)  BY <1>1 DEF Less
<1> QED  BY <1>2

\* Remainders of a division by any positive number.
LEMMA Quotient ==
  ASSUME NEW T \in Nat, T > 0, NEW x \in Int
  PROVE  \E q \in Int, r \in 0 .. T - 1 : r = x % T /\ x = q * T + r
<1>1. \E q \in Int : x - (x % T) = q * T
  OBVIOUS
<1>2. x % T \in 0 .. T - 1
  OBVIOUS
<1>3. PICK r \in 0 .. T - 1 : r = x % T
  BY <1>2
<1>4. PICK q \in Int : x - r = q * T
  BY <1>1, <1>3
<1>5. x = q * T + r
  BY <1>4
<1> QED BY <1>3, <1>5

LEMMA Residue ==
  ASSUME NEW T \in Nat, T > 0, NEW x \in Int, NEW r \in 0 .. T - 1, NEW q \in Int, x = q * T + r
  PROVE  x % T = r
OBVIOUS

LEMMA TurnOn ==
  ASSUME NEW T \in Nat, T > 0, NEW x \in Int, NEW y \in Int
  PROVE  ((x % T) + y) % T = (x + y) % T
<1>1. PICK p \in Int, m \in 0 .. T - 1 : m = x % T /\ x = p * T + m
  BY Quotient
<1>2. m + y \in Int
  OBVIOUS
<1>3. PICK q \in Int, r \in 0 .. T - 1 : r = (m + y) % T /\ m + y = q * T + r
  BY <1>2, Quotient
<1>4. PICK k \in Int : k = p + q
  OBVIOUS
<1>5. k * T = p * T + q * T /\ p * T \in Int /\ q * T \in Int
  BY <1>4
<1>6. PICK w \in Int : w = x + y
  OBVIOUS
<1>7. w = k * T + r
  BY <1>1, <1>3, <1>5, <1>6
<1>8. w % T = r
  BY <1>7, Residue
<1> QED BY <1>1, <1>3, <1>6, <1>8
-----------------------------------------------------------------------------
\* The delay line has at least one slot, and an index wraps at most once.
LEMMA SizePositive == Size \in Nat /\ Size > 0
BY SizeAssumption, OddHasCenter DEF Size

LEMMA Wraps ==
  ASSUME NEW s \in Nat, s > 0, NEW k \in Nat, k < s + s
  PROVE  k % s \in 0 .. s - 1 /\ k % s = IF k < s THEN k ELSE k - s
<1>1. CASE k < s
  BY <1>1
<1>2. CASE ~(k < s)
  <2>1. k - s \in 0 .. s - 1
    BY <1>2
  <2>2. k % s = (k - s) % s
    BY <1>2
  <2> QED BY <1>2, <2>1, <2>2
<1> QED BY <1>1, <1>2

\* The DDC's walk along prev: one slot back for every tap.
LEMMA Walk ==
  ASSUME NEW s \in Nat, s > 0, NEW h \in 0 .. s - 1, NEW ln
  PROVE  LinkTaps(ln, h, s) = [k \in 1 .. s |-> ln[(h + s - (k - 1)) % s]]
<1> DEFINE walk == CHOOSE walk : walk = [k \in 1 .. s |-> IF k = 1 THEN h ELSE LinkPrev(s)[walk[k - 1]]]
           g == [k \in 1 .. s |-> (h + s - (k - 1)) % s]
<1>1. LinkTaps(ln, h, s) = [k \in 1 .. s |-> ln[walk[k]]]
  BY DEF LinkTaps
<1>2. g[1] = h /\ \A k \in 2 .. s : LinkPrev(s)[g[k - 1]] = g[k]
  <2>1. g[1] = h
    <3>1. (h + s) % s = h  BY Wraps
    <3> QED BY <3>1
  <2>2. ASSUME NEW k \in 2 .. s PROVE LinkPrev(s)[g[k - 1]] = g[k]
    <3> DEFINE a == h + s - (k - 2)
               b == h + s - (k - 1)
    <3>1. a \in Nat /\ b \in Nat /\ a < s + s /\ b < s + s /\ a = b + 1 
      OBVIOUS
    <3>2. g[k - 1] = a % s /\ g[k] = b % s
      OBVIOUS
    <3> HIDE DEF a, b, g
    <3>3. a % s \in 0 .. s - 1 /\ a % s = (IF a < s THEN a ELSE a - s) /\ b % s = (IF b < s THEN b ELSE b - s)
      BY <3>1, Wraps
    <3>4. PICK c \in 0 .. s - 1 : c = a % s
      BY <3>3
    <3>5. c + s - 1 \in Nat /\ c + s - 1 < s + s /\ LinkPrev(s)[c] = (c + s - 1) % s
      BY DEF LinkPrev
    <3>6. (c + s - 1) % s = IF c + s - 1 < s THEN c + s - 1 ELSE c + s - 1 - s
      BY <3>5, Wraps
    <3> QED BY <3>1, <3>2, <3>3, <3>4, <3>5, <3>6
  <2> QED BY <2>1, <2>2
<1>3. g = [k \in 1 .. s |-> IF k = 1 THEN h ELSE LinkPrev(s)[g[k - 1]]]
  <2>1. \A k \in 1 .. s : k # 1 => k \in 2 .. s
    OBVIOUS
  <2>2. \A k \in 1 .. s : g[k] = IF k = 1 THEN h ELSE LinkPrev(s)[g[k - 1]]
    BY <1>2, <2>1
  <2> QED BY <2>2
<1>4. walk = [k \in 1 .. s |-> IF k = 1 THEN h ELSE LinkPrev(s)[walk[k - 1]]]
  <2> HIDE DEF g
  <2> QED BY <1>3
<1> HIDE DEF walk
<1>5. \A k \in 1 .. s : walk[k] = g[k]
  <2> DEFINE T == {k \in 1 .. s : walk[k] # g[k]}
  <2> SUFFICES ASSUME T # {} PROVE FALSE
    OBVIOUS
  <2>1. PICK m \in T : \A k \in T : m <= k
    <3>1. T \subseteq Nat  OBVIOUS
    <3> HIDE DEF T
    <3> QED BY <3>1, Least
  <2>2. m # 1
    BY <1>2, <1>4
  <2>3. m \in 2 .. s /\ m - 1 \in 1 .. s /\ m - 1 \notin T
    BY <2>1, <2>2
  <2>4. walk[m - 1] = g[m - 1]
    BY <2>3
  <2>5. walk[m] = LinkPrev(s)[walk[m - 1]]
    BY <1>4, <2>2
  <2> HIDE DEF g
  <2> QED BY <1>2, <2>1, <2>3, <2>4, <2>5
<1> QED BY <1>1, <1>5

\* The taps are read from the slots that Slot numbers, and the head moves so
\* that every slot comes one later; the slot written next is the last.
LEMMA TapsAreSlots ==
  ASSUME NEW ln, NEW h \in 0 .. Size - 1
  PROVE  TapsAt(ln, h) = [k \in 1 .. Size |-> ln[Slot(h, k)]]
<1> DEFINE s == Size
<1>1. s \in Nat /\ s > 0 /\ h \in 0 .. s - 1
  BY SizePositive
<1> HIDE DEF s
<1>2. LinkTaps(ln, h, s) = [k \in 1 .. s |-> ln[(h + s - (k - 1)) % s]]
  BY <1>1, Walk
<1>3. CASE kind = "ddc"
  BY <1>2, <1>3 DEF TapsAt, Slot, s
<1>4. CASE kind # "ddc"
  BY <1>4 DEF TapsAt, Slot, RingTaps
<1> QED BY <1>3, <1>4

\* Slot and Moved without the remainders: forwards in the arrays, backwards
\* along the ring of the DDC.
LEMMA SlotIs ==
  ASSUME NEW h \in 0 .. Size - 1, NEW k \in 1 .. Size
  PROVE  Slot(h, k) = IF kind = "ddc" THEN IF k <= h + 1 THEN h - (k - 1) ELSE h + Size - (k - 1)
                                      ELSE IF h + k - 1 < Size THEN h + k - 1 ELSE h + k - 1 - Size
<1>1. PICK s \in Nat : s > 0 /\ s = Size
  BY SizePositive
<1>2. h \in 0 .. s - 1 /\ k \in 1 .. s
  BY <1>1
<1>3. CASE kind = "ddc"
  <2>1. PICK a \in Nat : a = h + s - (k - 1) /\ a < s + s
    BY <1>2
  <2>2. a % s = IF a < s THEN a ELSE a - s
    BY <1>1, <2>1, Wraps
  <2>3. Slot(h, k) = a % s
    BY <1>1, <1>3, <2>1 DEF Slot
  <2> QED BY <1>1, <1>2, <1>3, <2>1, <2>2, <2>3
<1>4. CASE kind # "ddc"
  <2>1. PICK a \in Nat : a = h + k - 1 /\ a < s + s
    BY <1>2
  <2>2. a % s = IF a < s THEN a ELSE a - s
    BY <1>1, <2>1, Wraps
  <2>3. Slot(h, k) = a % s
    BY <1>1, <1>4, <2>1 DEF Slot
  <2> QED BY <1>1, <1>2, <1>4, <2>1, <2>2, <2>3
<1> QED BY <1>3, <1>4

LEMMA MovedIs ==
  ASSUME NEW h \in 0 .. Size - 1
  PROVE  Moved(h) = IF kind = "ddc" THEN IF h + 1 < Size THEN h + 1 ELSE 0
                                    ELSE IF h = 0 THEN Size - 1 ELSE h - 1
<1>1. PICK s \in Nat : s > 0 /\ s = Size
  BY SizePositive
<1>2. h \in 0 .. s - 1
  BY <1>1
<1>3. (h + 1) % s = IF h + 1 < s THEN h + 1 ELSE h + 1 - s
  BY <1>1, <1>2, Wraps
<1>4. (h + s - 1) % s = IF h + s - 1 < s THEN h + s - 1 ELSE h + s - 1 - s
  <2>1. h + s - 1 \in Nat /\ h + s - 1 < s + s
    BY <1>1, <1>2
  <2> QED BY <1>1, <2>1, Wraps
<1>5. CASE kind = "ddc"
  <2>1. Moved(h) = (h + 1) % s
    BY <1>1, <1>2, <1>5 DEF Moved, LinkNext
  <2> QED BY <1>1, <1>2, <1>3, <1>5, <2>1
<1>6. CASE kind # "ddc"
  <2>1. Moved(h) = (h + s - 1) % s
    BY <1>1, <1>6 DEF Moved, RingBack
  <2> QED BY <1>1, <1>2, <1>4, <1>6, <2>1
<1> QED BY <1>5, <1>6

\* When the head moves every slot is read one tap later, and the slot under
\* the old head is read first.
LEMMA SlotsMove ==
  ASSUME NEW h \in 0 .. Size - 1
  PROVE  /\ Slot(h, 1) = h /\ Moved(h) \in 0 .. Size - 1
         /\ \A k \in 1 .. Size : Slot(h, k) \in 0 .. Size - 1
         /\ \A k \in 2 .. Size : Slot(h, k) # h /\ Slot(Moved(h), k) = Slot(h, k - 1)
<1>1. PICK s \in Nat : s > 0 /\ s = Size
  BY SizePositive
<1>2. h \in 0 .. s - 1 /\ \A k \in 2 .. s : k - 1 \in 1 .. s /\ k \in 1 .. s
  BY <1>1
<1>3. PICK g \in 0 .. s - 1 : g = Moved(h) 
  BY <1>1, <1>2, MovedIs
<1>4. g = IF kind = "ddc" THEN IF h + 1 < s THEN h + 1 ELSE 0 ELSE IF h = 0 THEN s - 1 ELSE h - 1
  BY <1>1, <1>3, MovedIs
<1>5. \A x \in 0 .. s - 1, k \in 1 .. s :
        Slot(x, k) = IF kind = "ddc" THEN IF k <= x + 1 THEN x - (k - 1) ELSE x + s - (k - 1)
                                     ELSE IF x + k - 1 < s THEN x + k - 1 ELSE x + k - 1 - s
  BY <1>1, SlotIs
<1>6. Slot(h, 1) = h
  BY <1>1, <1>2, <1>5
<1>7. \A k \in 1 .. s : Slot(h, k) \in 0 .. s - 1
  BY <1>1, <1>2, <1>5
<1>8. ASSUME NEW k \in 2 .. s PROVE Slot(h, k) # h /\ Slot(g, k) = Slot(h, k - 1)
  <2>1. PICK j \in 1 .. s : j = k - 1
    BY <1>2
  <2>2. k \in 1 .. s
    BY <1>2
  <2>3. Slot(h, k) # h
    BY <1>2, <1>5, <2>2
  <2>4. Slot(h, j) = IF kind = "ddc" THEN IF j <= h + 1 THEN h - (j - 1) ELSE h + s - (j - 1)
                                     ELSE IF h + j - 1 < s THEN h + j - 1 ELSE h + j - 1 - s
    BY <1>2, <1>5
  <2>5. Slot(g, k) = IF kind = "ddc" THEN IF k <= g + 1 THEN g - (k - 1) ELSE g + s - (k - 1)
                                     ELSE IF g + k - 1 < s THEN g + k - 1 ELSE g + k - 1 - s
    BY <1>5, <2>2
  <2>6. Slot(g, k) = Slot(h, j)
    BY <1>1, <1>2, <1>4, <2>1, <2>4, <2>5
  <2> QED BY <2>1, <2>3, <2>6
<1> QED BY <1>1, <1>3, <1>6, <1>7, <1>8
-----------------------------------------------------------------------------
\* The delay line before a sample is written, and after it.
Ahead(ln, h, m) == /\ ln \in [0 .. Size - 1 -> Nat] /\ h \in 0 .. Size - 1
                   /\ \A k \in 2 .. Size : ln[Slot(h, k)] = Latest(m)[k - 1]
Full(ln, h, m)  == /\ ln \in [0 .. Size - 1 -> Nat] /\ h \in 0 .. Size - 1
                   /\ \A k \in 1 .. Size : ln[Slot(h, k)] = Latest(m)[k]

\* LineHolds is the one or the other, in this state and in the next: the slots
\* depend on the kind of the object only.
LEMMA LineNow == LineHolds <=> IF pc = "fill" THEN Full(line, l.head, n) ELSE Ahead(line, HeadNow, n)
BY DEF LineHolds, Full, Ahead, HeadNow

LEMMA LineNext ==
  ASSUME kind' = kind
  PROVE  /\ TapsInOrder' <=> (count' > 0 => taps' = Latest(at'))
         /\ LineHolds' <=> IF pc' = "fill" THEN Full(line', l'.head, n')
                           ELSE Ahead(line', IF pc' = "idle" THEN head' ELSE l'.head, n')
<1>1. TapsInOrder' <=> (count' > 0 => taps' = Latest(at'))
  BY DEF TapsInOrder, Latest, Size
<1>2. Size' = Size
  BY DEF Size
<1>3. Latest(n)' = Latest(n')
  BY <1>2 DEF Latest
<1>4. \A k : Slot(l.head, k)' = Slot(l'.head, k)
  BY <1>2 DEF Slot
<1>5. \A k : Slot(HeadNow, k)' = Slot(HeadNow', k)
  BY <1>2 DEF Slot
<1>6. LineHolds' <=> IF pc' = "fill" THEN Full(line', l'.head, n') ELSE Ahead(line', HeadNow', n')
  BY <1>2, <1>3, <1>4, <1>5 DEF LineHolds, Full, Ahead, HeadNow
<1> QED BY <1>1, <1>6 DEF HeadNow

\* A sample at the head completes the line.
LEMMA SampleIn ==
  ASSUME NEW ln, NEW h, NEW m \in Nat, Ahead(ln, h, m)
  PROVE  Full([ln EXCEPT ![h] = m + 1], h, m + 1)
<1> DEFINE new == [ln EXCEPT ![h] = m + 1]
<1>1. PICK s \in Nat : s > 0 /\ s = Size
  BY SizePositive
<1>2. ln \in [0 .. s - 1 -> Nat] /\ h \in 0 .. s - 1 /\ \A k \in 2 .. s : ln[Slot(h, k)] = Latest(m)[k - 1]
  BY <1>1 DEF Ahead
<1>3. new \in [0 .. s - 1 -> Nat] /\ new[h] = m + 1 /\ \A i \in 0 .. s - 1 : i # h => new[i] = ln[i]
  BY <1>2
<1> HIDE DEF new
<1>4. Slot(h, 1) = h /\ \A k \in 2 .. s : Slot(h, k) \in 0 .. s - 1 /\ Slot(h, k) # h
  <2>1. \A k \in 2 .. s : k \in 1 .. s
    OBVIOUS
  <2> QED BY <1>1, <1>2, <2>1, SlotsMove
<1>5. ASSUME NEW k \in 1 .. s PROVE new[Slot(h, k)] = Latest(m + 1)[k]
  <2>1. Latest(m + 1)[k] = IF m + 1 - k + 1 > 0 THEN m + 1 - k + 1 ELSE 0
    BY <1>1 DEF Latest
  <2>2. CASE k = 1
    BY <1>3, <1>4, <2>1, <2>2
  <2>3. CASE k # 1
    <3>1. k \in 2 .. s /\ k - 1 \in 1 .. s
      BY <2>3
    <3>2. Latest(m)[k - 1] = IF m - (k - 1) + 1 > 0 THEN m - (k - 1) + 1 ELSE 0
      BY <1>1, <3>1 DEF Latest
    <3>3. new[Slot(h, k)] = Latest(m)[k - 1]
      BY <1>2, <1>3, <1>4, <3>1
    <3> QED BY <2>1, <3>2, <3>3
  <2> QED BY <2>2, <2>3
<1> QED BY <1>1, <1>2, <1>3, <1>5 DEF Full, new

\* The taps of a complete line are the latest samples; then the head moves on.
LEMMA HeadOn ==
  ASSUME NEW ln, NEW h, NEW m \in Nat, Full(ln, h, m)
  PROVE  Ahead(ln, Moved(h), m) /\ TapsAt(ln, h) = Latest(m)
<1>1. PICK s \in Nat : s > 0 /\ s = Size
  BY SizePositive
<1>2. ln \in [0 .. s - 1 -> Nat] /\ h \in 0 .. s - 1 /\ \A k \in 1 .. s : ln[Slot(h, k)] = Latest(m)[k]
  BY <1>1 DEF Full
<1>3. Moved(h) \in 0 .. s - 1 /\ \A k \in 2 .. s : Slot(Moved(h), k) = Slot(h, k - 1)
  BY <1>1, <1>2, SlotsMove
<1>4. ASSUME NEW k \in 2 .. s PROVE ln[Slot(Moved(h), k)] = Latest(m)[k - 1]
  <2>1. k - 1 \in 1 .. s
    OBVIOUS
  <2> QED BY <1>2, <1>3, <2>1
<1>5. TapsAt(ln, h) = Latest(m)
  <2>1. TapsAt(ln, h) = [k \in 1 .. s |-> ln[Slot(h, k)]]
    BY <1>1, <1>2, TapsAreSlots
  <2>2. Latest(m) = [k \in 1 .. s |-> Latest(m)[k]]
    BY <1>1 DEF Latest
  <2> QED BY <1>2, <2>1, <2>2
<1> QED BY <1>1, <1>2, <1>3, <1>4, <1>5 DEF Ahead

\* What the turns of the loop do to the locals that carry over.
LEMMA KeepLocals ==
  ASSUME Bounded, Keep
  PROVE  l'.head = Moved(l.head) /\ l'.phase = Mixed /\ l'.buf = Filled(l.buf)
<1>1. PICK a : l' = [l EXCEPT !.acc = a, !.head = Moved(l.head), !.phase = Mixed, !.buf = Filled(l.buf)]
  BY DEF Keep
<1>2. l'.head = Moved(l.head)
  BY <1>1 DEF Bounded, TypeOK
<1>3. l'.phase = Mixed
  BY <1>1 DEF Bounded, TypeOK
<1>4. l'.buf = Filled(l.buf)
  BY <1>1 DEF Bounded, TypeOK
<1> QED BY <1>2, <1>3, <1>4

LEMMA SkipLocals ==
  ASSUME Bounded, Skip
  PROVE  l'.head = Moved(l.head) /\ l'.phase = Mixed /\ l'.buf = l.buf
<1>1. PICK a : l' = [l EXCEPT !.acc = a, !.head = Moved(l.head), !.phase = Mixed]
  BY DEF Skip
<1> QED BY <1>1 DEF Bounded, TypeOK

LEMMA WidenLocals ==
  ASSUME Bounded
  PROVE  /\ Branch => l'.head = l.head /\ l'.phase = l.phase /\ l'.buf = l.buf
         /\ Widen => l'.head = l.head /\ l'.phase = l.phase /\ l'.buf = l.buf
         /\ Fill => l'.head = l.head /\ l'.phase = l.phase /\ l'.buf = Filled(l.buf)
         /\ FillDone => l'.head = Moved(l.head) /\ l'.phase = l.phase /\ l'.buf = l.buf
<1> USE DEF Bounded, TypeOK
<1>1. Branch => l'.head = l.head /\ l'.phase = l.phase /\ l'.buf = l.buf
  BY DEF Branch
<1>2. Widen => l'.head = l.head /\ l'.phase = l.phase /\ l'.buf = l.buf
  BY DEF Widen
<1>3. Fill => l'.head = l.head /\ l'.phase = l.phase /\ l'.buf = Filled(l.buf)
  BY DEF Fill
<1>4. FillDone => l'.head = Moved(l.head) /\ l'.phase = l.phase /\ l'.buf = l.buf
  BY DEF FillDone
<1> QED BY <1>1, <1>2, <1>3, <1>4

\* A setter touches neither line nor buffer nor locals.
LEMMA SetterQuiet == Setter => UNCHANGED <<kind, line, place, update, n, outputs>>
BY DEF Setter, Narrower, SetInRate, SetOutRate, SetRates, SetFreqs, StoreUp, StoreRatio, StoreFreq

\* Line and taps: a widening emits between the sample and the move of the head.
LEMMA LineStep ==
  ASSUME Bounded, FlowInv, [Next]_vars
  PROVE  LineHolds' /\ TapsInOrder'
<1> USE DEF FlowInv
<1>0. n \in Nat /\ count \in Nat /\ n + 1 \in Nat
  BY DEF Bounded, TypeOK
<1>1. IF pc = "fill" THEN Full(line, l.head, n) ELSE Ahead(line, HeadNow, n)
  BY LineNow
<1>2. CASE \E len \in 0 .. MaxCall : Call(len)
  <2>1. PICK len \in 0 .. MaxCall : Call(len)
    BY <1>2
  <2>2. pc = "idle" /\ pc' = "called" /\ l'.head = head /\ UNCHANGED <<kind, line, n, outputs>>
    BY <2>1 DEF Call
  <2> QED BY <1>1, <2>2, LineNext DEF HeadNow, outputs, TapsInOrder
<1>3. CASE Branch
  <2>1. pc = "called" /\ pc' = "loop" /\ UNCHANGED <<kind, line, n, outputs>> /\ l'.head = l.head
    BY <1>3, WidenLocals DEF Branch
  <2> QED BY <1>1, <2>1, LineNext DEF HeadNow, outputs, TapsInOrder
<1>4. CASE Keep
  <2>1. /\ pc = "loop" /\ pc' = "loop" /\ kind' = kind /\ n' = n + 1 /\ at' = n + 1
        /\ line' = [line EXCEPT ![l.head] = n + 1] /\ l'.head = Moved(l.head)
        /\ taps' = TapsAt(line', l.head)
    BY <1>4, KeepLocals DEF Keep, Take, Emit
  <2>2. Ahead(line, l.head, n)
    BY <1>1, <2>1 DEF HeadNow
  <2>3. Full(line', l.head, n + 1)
    BY <1>0, <2>1, <2>2, SampleIn
  <2>4. Ahead(line', Moved(l.head), n + 1) /\ TapsAt(line', l.head) = Latest(n + 1)
    BY <1>0, <2>3, HeadOn
  <2> QED BY <2>1, <2>4, LineNext
<1>5. CASE Skip
  <2>1. /\ pc = "loop" /\ pc' = "loop" /\ n' = n + 1 /\ UNCHANGED <<kind, outputs>>
        /\ line' = [line EXCEPT ![l.head] = n + 1] /\ l'.head = Moved(l.head)
    BY <1>5, SkipLocals DEF Skip, Take
  <2>2. Ahead(line, l.head, n)
    BY <1>1, <2>1 DEF HeadNow
  <2>3. Full(line', l.head, n + 1)
    BY <1>0, <2>1, <2>2, SampleIn
  <2>4. Ahead(line', Moved(l.head), n + 1)
    BY <1>0, <2>3, HeadOn
  <2> QED BY <2>1, <2>4, LineNext DEF outputs, TapsInOrder
<1>6. CASE Widen
  <2>1. /\ pc = "loop" /\ pc' = "fill" /\ n' = n + 1 /\ UNCHANGED <<kind, outputs>>
        /\ line' = [line EXCEPT ![l.head] = n + 1] /\ l'.head = l.head
    BY <1>6, WidenLocals DEF Widen, Take
  <2>2. Ahead(line, l.head, n)
    BY <1>1, <2>1 DEF HeadNow
  <2>3. Full(line', l.head, n + 1)
    BY <1>0, <2>1, <2>2, SampleIn
  <2> QED BY <2>1, <2>3, LineNext DEF outputs, TapsInOrder
<1>7. CASE Fill
  <2>1. /\ pc = "fill" /\ pc' = "fill" /\ UNCHANGED <<kind, line, n>> /\ l'.head = l.head
        /\ taps' = TapsAt(line, l.head) /\ at' = n
    BY <1>7, WidenLocals DEF Fill, Emit
  <2>2. TapsAt(line, l.head) = Latest(n)
    BY <1>0, <1>1, <2>1, HeadOn
  <2> QED BY <1>1, <2>1, <2>2, LineNext
<1>8. CASE FillDone
  <2>1. /\ pc = "fill" /\ pc' = "loop" /\ UNCHANGED <<kind, line, n, outputs>>
        /\ l'.head = Moved(l.head)
    BY <1>8, WidenLocals DEF FillDone
  <2>2. Ahead(line, Moved(l.head), n)
    BY <1>0, <1>1, <2>1, HeadOn
  <2> QED BY <2>1, <2>2, LineNext DEF outputs, TapsInOrder
<1>9. CASE Return
  <2>1. pc = "loop" /\ pc' = "idle" /\ head' = l.head /\ UNCHANGED <<kind, line, n, outputs>>
    BY <1>9 DEF Return
  <2> QED BY <1>1, <2>1, LineNext DEF HeadNow, outputs, TapsInOrder
<1>10. CASE FirUpdate
  <2>1. /\ pc = "idle" /\ pc' = "idle" /\ kind' = kind /\ n' = n + 1 /\ at' = n + 1
        /\ line' = [line EXCEPT ![head] = n + 1] /\ head' = Moved(head)
        /\ taps' = TapsAt(line', head)
    BY <1>10 DEF FirUpdate, FirDirect, update
  <2>2. Ahead(line, head, n)
    BY <1>1, <2>1 DEF HeadNow
  <2>3. Full(line', head, n + 1)
    BY <1>0, <2>1, <2>2, SampleIn
  <2>4. Ahead(line', Moved(head), n + 1) /\ TapsAt(line', head) = Latest(n + 1)
    BY <1>0, <2>3, HeadOn
  <2> QED BY <2>1, <2>4, LineNext
<1>11. CASE Setter \/ UNCHANGED vars
  <2>1. UNCHANGED <<kind, line, place, update, n, outputs>>
    BY <1>11, SetterQuiet DEF vars
  <2> QED BY <1>1, <2>1, LineNext DEF HeadNow, place, update, outputs, TapsInOrder
<1> QED
  BY <1>2, <1>3, <1>4, <1>5, <1>6, <1>7, <1>8, <1>9, <1>10, <1>11 DEF Next, Update, Loop

\* An output stored: the buffer goes on where the blocks handed on end, and
\* empties into them when it is full.
Waiting(b, c, d) == /\ b \in Seq(Nat) /\ d \in Nat
                    /\ Len(b) = c - d /\ Len(b) < BufSize
                    /\ \A i \in 1 .. Len(b) : b[i] = d + i

LEMMA EmitBuf ==
  ASSUME NEW b, count \in Nat, Waiting(b, count, handed), NEW ln, NEW h, NEW m, Emit(b, ln, h, m)
  PROVE  Waiting(Filled(b), count', handed')
<1> USE DEF Waiting
<1>1. count' = count + 1 /\ handed' = IF Len(b) + 1 >= BufSize THEN handed + Len(b) + 1 ELSE handed
  BY DEF Emit
<1>2. CASE Len(b) + 1 >= BufSize
  <2>1. Filled(b) = <<>> /\ handed' = count'
    BY <1>1, <1>2 DEF Filled
  <2> QED BY <1>1, <2>1, SizeAssumption
<1>3. CASE ~(Len(b) + 1 >= BufSize)
  <2>1. Filled(b) = Append(b, count + 1) /\ handed' = handed
    BY <1>1, <1>3 DEF Filled
  <2>2. PICK c \in Nat : c = count + 1
    OBVIOUS
  <2>3. b \in Seq(Nat) /\ Len(b) = count - handed
    OBVIOUS
  <2>4. Append(b, c) \in Seq(Nat) /\ Len(Append(b, c)) = Len(b) + 1
    BY <2>3
  <2>5. ASSUME NEW i \in 1 .. Len(b) + 1 PROVE Append(b, c)[i] = handed + i
    BY <2>2, <2>3
  <2> QED BY <1>1, <1>3, <2>1, <2>2, <2>4, <2>5, SizeAssumption
<1> QED BY <1>2, <1>3

\* The waiting outputs move with the call: loaded, stored, handed on whole.
LEMMA BufStep ==
  ASSUME Bounded, FlowInv, [Next]_vars
  PROVE  BufHolds' /\ FirDirect'
<1> USE DEF FlowInv
<1>0. count \in Nat /\ n \in Nat
  BY DEF Bounded, TypeOK
<1>1. Waiting(BufNow, count, handed)
  BY DEF BufHolds, Waiting
<1>2. ASSUME Waiting(BufNow', count', handed') PROVE BufHolds'
  BY <1>2 DEF BufHolds, Waiting
<1>3. CASE \E len \in 0 .. MaxCall : Call(len)
  <2>1. PICK len \in 0 .. MaxCall : Call(len)
    BY <1>3
  <2>2. /\ pc = "idle" /\ pc' = "called" /\ l'.buf = buf /\ UNCHANGED <<kind, count, handed>>
        /\ kind # "fir"
    BY <2>1 DEF Call, outputs
  <2> QED BY <1>1, <1>2, <2>2 DEF BufNow, FirDirect
<1>4. CASE Branch \/ Skip \/ Widen \/ FillDone
  <2>1. /\ pc # "idle" /\ pc' # "idle" /\ UNCHANGED <<kind, count, handed>> /\ l'.buf = l.buf
    BY <1>4, WidenLocals, SkipLocals DEF Branch, Skip, Widen, FillDone, Take, outputs
  <2> QED BY <1>1, <1>2, <2>1 DEF BufNow, FirDirect
<1>5. CASE Keep \/ Fill
  <2>1. pc # "idle" /\ pc' # "idle" /\ kind' = kind /\ l'.buf = Filled(l.buf)
    BY <1>5, WidenLocals, KeepLocals DEF Keep, Fill, Take
  <2>2. \E ln, h, m : Emit(l.buf, ln, h, m)
    BY <1>5 DEF Keep, Fill
  <2>3. Waiting(l.buf, count, handed)
    BY <1>1, <2>1 DEF BufNow
  <2>4. Waiting(Filled(l.buf), count', handed')
    BY <1>0, <2>2, <2>3, EmitBuf
  <2> QED BY <1>2, <2>1, <2>4 DEF BufNow, FirDirect
<1>6. CASE Return
  <2>1. pc # "idle" /\ pc' = "idle" /\ UNCHANGED <<kind, count, handed>> /\ buf' = l.buf
    BY <1>6 DEF Return, outputs
  <2> QED BY <1>1, <1>2, <2>1 DEF BufNow, FirDirect
<1>7. CASE FirUpdate
  <2>1. /\ pc = "idle" /\ pc' = "idle" /\ kind' = kind /\ buf = <<>> /\ buf' = buf
        /\ count' = count + 1 /\ handed' = handed + 1
    BY <1>7 DEF FirUpdate, FirDirect, update
  <2>2. Waiting(buf, count', handed')
    BY <1>0, <1>1, <2>1 DEF Waiting, BufNow
  <2> QED BY <1>2, <2>1, <2>2 DEF BufNow, FirDirect
<1>8. CASE Setter \/ UNCHANGED vars
  <2>1. UNCHANGED <<kind, place, update, outputs>>
    BY <1>8, SetterQuiet DEF vars
  <2> QED BY <1>1, <1>2, <2>1 DEF BufNow, FirDirect, place, update, outputs
<1> QED
  BY <1>3, <1>4, <1>5, <1>6, <1>7, <1>8 DEF Next, Update, Loop

\* The mixer turns once for every sample, and goes on where it stopped.
LEMMA TurnsOnce ==
  ASSUME NEW a \in Int, NEW f \in Int, NEW m \in Nat
  PROVE  DownSpin(DownSpin(a, m * f, Turn), f, Turn) = DownSpin(a, (m + 1) * f, Turn)
<1>1. PICK T \in Nat : T > 0 /\ T = Turn
  BY TurnAssumption
<1>2. PICK x \in Int : x = a + -(m * f)
  OBVIOUS
<1>3. PICK y \in Int : y = -f
  OBVIOUS
<1>4. ((x % T) + y) % T = (x + y) % T
  BY <1>1, TurnOn
<1>5. x + y = a + -((m + 1) * f)
  <2>1. (m + 1) * f = m * f + f /\ m * f \in Int
    OBVIOUS
  <2> QED BY <1>2, <1>3, <2>1
<1> QED BY <1>1, <1>2, <1>3, <1>4, <1>5 DEF DownSpin, Spin

\* With no setter ever, every sample of the DDC turns the phase by freq; the
\* steady DDC never widens, so that no sample passes it by.
LEMMA PhaseStep ==
  ASSUME Bounded, Books, FlowInv, [Next]_vars
  PROVE  PhaseHolds'
<1> USE DEF FlowInv
<1> DEFINE at0 == Turn \div 4
<1>0. n \in Nat /\ at0 \in Int
  BY TurnAssumption DEF Bounded, TypeOK
<1> SUFFICES ASSUME kind' = "ddc", steady'
             PROVE  freq' \in Int /\ PhaseNow' = DownSpin(at0, n' * freq', Turn)
  BY DEF PhaseHolds, DownSpin, Spin
<1>1. kind = "ddc" /\ steady
  BY DEF Next, Update, Loop, Call, Branch, Keep, Skip, Widen, Fill, FillDone, Return, FirUpdate,
         Setter, Narrower, SetInRate, SetOutRate, SetRates, SetFreqs, StoreUp, StoreRatio, StoreFreq, vars, marks
<1>2. spc = "idle" /\ (pc \in {"loop", "fill"} => ~l.up)
  BY <1>1 DEF Books, SteadyCalls, Widening, Resamplers
<1>3. freq \in Int /\ PhaseNow = DownSpin(at0, n * freq, Turn)
  BY <1>1 DEF PhaseHolds
<1> HIDE DEF at0
<1>4. CASE \E len \in 0 .. MaxCall : Call(len)
  <2>1. PICK len \in 0 .. MaxCall : Call(len)
    BY <1>4
  <2>2. pc = "idle" /\ pc' = "called" /\ l'.phase = phase /\ UNCHANGED <<freq, n>>
    BY <2>1 DEF Call, settings
  <2> QED BY <1>3, <2>2 DEF PhaseNow
<1>5. CASE Branch \/ Fill \/ FillDone
  <2>1. pc # "idle" /\ pc' # "idle" /\ UNCHANGED <<freq, n>> /\ l'.phase = l.phase
    BY <1>5, WidenLocals DEF Branch, Fill, FillDone, settings
  <2> QED BY <1>3, <2>1 DEF PhaseNow
<1>6. CASE Keep \/ Skip
  <2>1. pc # "idle" /\ pc' # "idle" /\ freq' = freq /\ n' = n + 1 /\ l'.phase = Mixed
    BY <1>6, KeepLocals, SkipLocals DEF Keep, Skip, Take, settings
  <2>2. Mixed = DownSpin(l.phase, freq, Turn)
    BY <1>1 DEF Mixed
  <2>3. l.phase = DownSpin(at0, n * freq, Turn)
    BY <1>3, <2>1 DEF PhaseNow
  <2>4. DownSpin(DownSpin(at0, n * freq, Turn), freq, Turn) = DownSpin(at0, (n + 1) * freq, Turn)
    BY <1>0, <1>3, TurnsOnce
  <2> QED BY <1>3, <2>1, <2>2, <2>3, <2>4 DEF PhaseNow
<1>7. CASE Return
  <2>1. pc # "idle" /\ pc' = "idle" /\ UNCHANGED <<freq, n>> /\ phase' = l.phase
    BY <1>7 DEF Return, settings
  <2> QED BY <1>3, <2>1 DEF PhaseNow
<1>8. ~Widen /\ ~FirUpdate
  BY <1>1, <1>2 DEF Widen, Take, FirUpdate
<1>9. CASE Setter
  <2>1. FALSE
    BY <1>2, <1>9 DEF Setter, Narrower, SetInRate, SetOutRate, SetRates, SetFreqs, StoreUp, StoreRatio, StoreFreq
  <2> QED BY <2>1
<1>10. CASE UNCHANGED vars
  BY <1>3, <1>10 DEF vars, place, settings, update, PhaseNow
<1> QED
  BY <1>4, <1>5, <1>6, <1>7, <1>8, <1>9, <1>10 DEF Next, Update, Loop

\* An object as created: zeros in the line, no output, a quarter turn.
LEMMA InitFlow == Init => FlowInv
<1> SUFFICES ASSUME Init PROVE FlowInv
  OBVIOUS
<1>1. PICK s \in Nat : s > 0 /\ s = Size
  BY SizePositive
<1>2. LineHolds
  <2>1. line = [i \in 0 .. s - 1 |-> 0] /\ head = 0 /\ n = 0 /\ pc = "idle"
    BY <1>1 DEF Init
  <2>2. line \in [0 .. s - 1 -> Nat] /\ 0 \in 0 .. s - 1
    BY <1>1, <2>1
  <2>3. ASSUME NEW k \in 2 .. s PROVE line[Slot(0, k)] = Latest(0)[k - 1]
    <3>1. k \in 1 .. s /\ k - 1 \in 1 .. s
      OBVIOUS
    <3>2. Slot(0, k) \in 0 .. s - 1
      BY <1>1, <2>2, <3>1, SlotsMove
    <3>3. Latest(0)[k - 1] = 0
      BY <1>1, <3>1 DEF Latest
    <3> QED BY <2>1, <3>2, <3>3
  <2> QED BY <1>1, <2>1, <2>2, <2>3 DEF LineHolds, HeadNow
<1>3. BufHolds /\ FirDirect
  BY SizeAssumption DEF Init, BufHolds, BufNow, FirDirect
<1>4. PhaseHolds
  <2> SUFFICES ASSUME kind = "ddc" PROVE freq \in Int /\ PhaseNow = DownSpin(Turn \div 4, n * freq, Turn)
    BY DEF PhaseHolds
  <2>1. freq \in Int /\ n = 0 /\ PhaseNow = Turn \div 4
    BY TurnAssumption DEF Init, PhaseNow
  <2>2. PICK a \in 0 .. Turn - 1 : a = Turn \div 4
    BY TurnAssumption
  <2>3. a + -(0 * freq) = a
    BY <2>1
  <2>4. a % Turn = a
    BY TurnAssumption
  <2> QED BY <2>1, <2>2, <2>3, <2>4 DEF DownSpin, Spin
<1>5. TapsInOrder
  BY DEF Init, TapsInOrder
<1> QED BY <1>2, <1>3, <1>4, <1>5 DEF FlowInv

\* FlowInv is inductive with the ranges and the balance.
LEMMA FlowKept == Bounded /\ Books /\ FlowInv /\ [Next]_vars => FlowInv'
BY LineStep, BufStep, PhaseStep DEF FlowInv

\* Between two calls FlowInv is what Continuous says.
LEMMA FlowIsContinuous == FlowInv => Continuous
<1> SUFFICES ASSUME FlowInv PROVE Continuous
  OBVIOUS
<1>1. BlocksWhole
  <2> SUFFICES ASSUME pc = "idle"
               PROVE  Len(buf) < BufSize /\ buf = [i \in 1 .. count - handed |-> handed + i]
    BY DEF BlocksWhole
  <2>1. /\ buf \in Seq(Nat) /\ Len(buf) = count - handed /\ Len(buf) < BufSize
        /\ \A i \in 1 .. Len(buf) : buf[i] = handed + i
    BY DEF FlowInv, BufHolds, BufNow
  <2>2. buf = [i \in 1 .. Len(buf) |-> buf[i]]
    BY <2>1
  <2> QED BY <2>1, <2>2
<1>2. PhaseContinuous
  BY DEF FlowInv, PhaseHolds, PhaseNow, PhaseContinuous
<1> QED BY <1>1, <1>2 DEF Continuous, FlowInv

\* However the stream is cut into calls, whatever the rates do meanwhile and
\* however long it runs: every output is the sum over the latest samples, the
\* blocks are whole, and with one tuning the mixer's phase never jumps.
THEOREM StreamsContinue == Spec => []Continuous
BY RatesBounded, StaysOnBooks, InitFlow, FlowKept, FlowIsContinuous, PTL DEF Spec
=============================================================================
