---------------------------- MODULE ProviderProofs ----------------------------
(***************************************************************************)
(* Theorems about ProviderStream, for every number of blocks and pieces,   *)
(* both providers and every set of disruptions that ProviderAssumption     *)
(* admits: what the message says, and that snapshots only grow.            *)
(***************************************************************************)
EXTENDS ProviderStream, TLAPS

(***************************************************************************)
(* The calls are a dict by id: one with the id is replaced in its place,   *)
(* or the call comes last.                                                 *)
(***************************************************************************)
LEMMA PutInPlace ==
  ASSUME calls \in Seq(Held(Ids)), NEW call \in Held(Ids),
         \E k \in 1..Len(calls) : calls[k].id = call.id
  PROVE  /\ Put(call) \in Seq(Held(Ids))
         /\ Len(Put(call)) = Len(calls)
         /\ \A k \in 1..Len(calls) :
              Put(call)[k] = IF calls[k].id = call.id THEN call ELSE calls[k]
BY DEF Put

LEMMA PutAtEnd ==
  ASSUME calls \in Seq(Held(Ids)), NEW call \in Held(Ids),
         ~\E k \in 1..Len(calls) : calls[k].id = call.id
  PROVE  /\ Put(call) \in Seq(Held(Ids))
         /\ Len(Put(call)) = Len(calls) + 1
         /\ \A k \in 1..Len(calls) : Put(call)[k] = calls[k]
         /\ Put(call)[Len(calls) + 1] = call
BY DEF Put

(***************************************************************************)
(* What a step does to the calls when it changes block i: nothing, if the  *)
(* piece has no id; else the call in its place, or a new one at the end.   *)
(***************************************************************************)
Other(i) ==
  \A j \in Indexes : j # i => told'[j] = told[j] /\ partial'[j] = partial[j]

Longer(i) ==
  /\ Len(told[i].pieces) <= Len(told'[i].pieces)
  /\ \A n \in 1..Len(told[i].pieces) : told'[i].pieces[n] = told[i].pieces[n]

Grown(i) ==
  /\ Other(i) /\ Longer(i)
  /\ told'[i].kind = "call"
  /\ partial'[i].pieces = told'[i].pieces
  /\ partial'[i].whole <=> told'[i].whole \/ told'[i].ended
  /\ provider = "openai" => ~told'[i].ended
  /\ provider = "anthropic" => partial'[i].id = IdOf(i) /\ ~told'[i].blanked

Aside(i) ==
  /\ UNCHANGED <<calls, named>>
  /\ partial'[i].id = Blank
  /\ (\E k \in 1..Len(named) : named[k] = IdOf(i)) => told'[i].blanked

InPlace(i) ==
  /\ UNCHANGED named
  /\ partial'[i].id = IdOf(i)
  /\ \E k \in 1..Len(named) : named[k] = IdOf(i)
  /\ Len(calls') = Len(calls)
  /\ \A k \in 1..Len(calls) :
       calls'[k] = IF calls[k].id = IdOf(i) THEN partial'[i] ELSE calls[k]

AtTheEnd(i) ==
  /\ Len(named') = Len(named) + 1
  /\ \A k \in 1..Len(named) : named'[k] = named[k]
  /\ named'[Len(named) + 1] = IdOf(i)
  /\ partial'[i].id = IdOf(i)
  /\ ~\E k \in 1..Len(named) : named[k] = IdOf(i)
  /\ Len(calls') = Len(calls) + 1
  /\ \A k \in 1..Len(calls) : calls'[k] = calls[k]
  /\ calls'[Len(calls) + 1] = partial'[i]

CallStep(i) == Grown(i) /\ (Aside(i) \/ InPlace(i) \/ AtTheEnd(i))

\* A block of text begins or ends.
TextStep(i) ==
  /\ UNCHANGED <<calls, named, partial>>
  /\ \A j \in Indexes : j # i => told'[j] = told[j]
  /\ told'[i].kind = "text" /\ told'[i].pieces = <<>>
  /\ provider = "anthropic" /\ told[i].kind # "call"

NoStep == UNCHANGED <<calls, named, partial, told>>

Inv == TypeOK /\ NamesInv /\ HeldInv

\* What the types say of lengths.
Sizes ==
  /\ Len(calls) \in Nat /\ Len(named) \in Nat
  /\ \A k \in 1..Len(calls) : Len(calls[k].pieces) \in Nat
  /\ \A i \in Indexes : Len(told[i].pieces) \in Nat

LEMMA Sized == TypeOK => Sizes
<1> SUFFICES ASSUME TypeOK PROVE Sizes
  OBVIOUS
<1>1. calls \in Seq(Held(Ids)) /\ named \in Seq(Ids)
  BY DEF TypeOK
<1>2. Len(calls) \in Nat /\ Len(named) \in Nat
  BY <1>1
<1>3. ASSUME NEW k \in 1..Len(calls) PROVE Len(calls[k].pieces) \in Nat
  <2>1. calls[k] \in Held(Ids)
    BY <1>1, <1>3
  <2>2. calls[k].pieces \in Seq(Nat)
    BY <2>1 DEF Held
  <2> QED BY <2>2
<1>4. ASSUME NEW i \in Indexes PROVE Len(told[i].pieces) \in Nat
  <2>1. told[i].pieces \in Seq(Nat)
    BY <1>4 DEF TypeOK
  <2> QED BY <2>1
<1> QED BY <1>2, <1>3, <1>4 DEF Sizes

LEMMA SizedNext == TypeOK' => Sizes'
BY Sized, PTL

LEMMA NamesKept ==
  ASSUME Inv, TypeOK', NEW i \in Indexes, CallStep(i) PROVE NamesInv'
<1>0. Sizes /\ Sizes'
  BY Sized, SizedNext DEF Inv
<1> USE <1>0 DEF Inv, NamesInv, Sizes
<1>1. CASE Aside(i)
  BY <1>1 DEF Aside
<1>2. CASE InPlace(i)
  BY <1>2 DEF InPlace
<1>3. CASE AtTheEnd(i)
  <2>1. \A k \in 1..Len(named') : calls'[k].id = named'[k]
    BY <1>3 DEF AtTheEnd
  <2>2. \A j, k \in 1..Len(named') : named'[j] = named'[k] => j = k
    BY <1>3 DEF AtTheEnd
  <2> QED BY <1>3, <2>1, <2>2 DEF AtTheEnd
<1> QED BY <1>1, <1>2, <1>3 DEF CallStep

\* What lags behind a sequence lags behind one that has grown from it.
LEMMA LongerStill ==
  ASSUME NEW p, NEW s, NEW t,
         Len(p) \in Nat, Len(s) \in Nat, Len(t) \in Nat,
         Len(p) <= Len(s), \A n \in 1..Len(p) : p[n] = s[n],
         Len(s) <= Len(t), \A n \in 1..Len(s) : t[n] = s[n]
  PROVE  /\ Len(p) <= Len(t)
         /\ \A n \in 1..Len(p) : p[n] = t[n]
<1>1. ASSUME NEW n \in 1..Len(p) PROVE n \in 1..Len(s)
  OBVIOUS
<1> QED BY <1>1

LEMMA HeldKept ==
  ASSUME Inv, TypeOK', NEW i \in Indexes, CallStep(i), UNCHANGED provider
  PROVE  HeldInv'
<1>0. NamesInv' /\ Sizes /\ Sizes'
  BY NamesKept, Sized, SizedNext DEF Inv
<1> USE <1>0 DEF Sizes
<1> DEFINE H(j) ==
      /\ partial[j].pieces = told[j].pieces
      /\ told[j].kind = "call" => (partial[j].whole <=> told[j].whole \/ told[j].ended)
      /\ told[j].kind # "call" => partial[j] = Call(Blank)
      /\ told[j].kind = "none" => told[j] = NoBlock
      /\ partial[j].id # Blank => partial[j].id = IdOf(j)
      /\ provider = "openai" => ~told[j].ended
      /\ provider = "anthropic" /\ told[j].kind = "call" =>
           partial[j].id = IdOf(j) /\ ~told[j].blanked
      /\ partial[j].id # Blank => \E k \in 1..Len(named) : named[k] = IdOf(j)
      /\ \A k \in 1..Len(named) : named[k] = IdOf(j) =>
           /\ told[j].kind = "call"
           /\ Behind(k, j)
           /\ ~told[j].blanked => calls[k] = partial[j]
<1>1. ASSUME NEW j \in Indexes, j # i PROVE H(j)'
  <2>1. H(j) /\ told'[j] = told[j] /\ partial'[j] = partial[j] /\ IdOf(j) # IdOf(i)
    BY <1>1 DEF Inv, HeldInv, CallStep, Grown, Other, IdOf, Indexes
  <2>2. ASSUME NEW k \in 1..Len(named'), named'[k] = IdOf(j)
        PROVE  k \in 1..Len(named) /\ named[k] = IdOf(j) /\ calls'[k] = calls[k]
    <3>1. CASE Aside(i)
      BY <2>2, <3>1 DEF Aside
    <3>2. CASE InPlace(i)
      BY <2>1, <2>2, <3>2 DEF InPlace, Inv, NamesInv
    <3>3. CASE AtTheEnd(i)
      BY <2>1, <2>2, <3>3 DEF AtTheEnd, Inv, NamesInv
    <3> QED BY <3>1, <3>2, <3>3 DEF CallStep
  <2>3. ASSUME NEW k \in 1..Len(named), named[k] = IdOf(j)
        PROVE  \E m \in 1..Len(named') : named'[m] = IdOf(j)
    <3>1. CASE named' = named
      BY <2>3, <3>1
    <3>2. CASE AtTheEnd(i)
      <4>1. k \in 1..Len(named') /\ named'[k] = IdOf(j)
        BY <2>3, <3>2 DEF AtTheEnd
      <4> QED BY <4>1
    <3> QED BY <3>1, <3>2 DEF CallStep, Aside, InPlace
  <2> QED BY <2>1, <2>2, <2>3 DEF Behind
<1>2. H(i)'
  <2>1. ASSUME NEW k \in 1..Len(named'), named'[k] = IdOf(i)
        PROVE  Behind(k, i)' /\ (~told'[i].blanked => calls'[k] = partial'[i])
    <3>1. CASE Aside(i)
      <4>1. k \in 1..Len(named) /\ named[k] = IdOf(i) /\ calls'[k] = calls[k]
        BY <2>1, <3>1 DEF Aside
      <4>2. Behind(k, i) /\ Longer(i) /\ told'[i].blanked
        BY <3>1, <4>1 DEF Aside, CallStep, Grown, Inv, HeldInv
      <4>3. Len(calls[k].pieces) \in Nat /\ Len(told[i].pieces) \in Nat
            /\ Len(told'[i].pieces) \in Nat
        BY <4>1 DEF Inv, NamesInv
      <4>4. /\ Len(calls[k].pieces) <= Len(told[i].pieces)
            /\ \A n \in 1..Len(calls[k].pieces) : calls[k].pieces[n] = told[i].pieces[n]
        BY <4>2 DEF Behind
      <4>5. /\ Len(told[i].pieces) <= Len(told'[i].pieces)
            /\ \A n \in 1..Len(told[i].pieces) : told'[i].pieces[n] = told[i].pieces[n]
        BY <4>2 DEF Longer
      <4>6. /\ Len(calls[k].pieces) <= Len(told'[i].pieces)
            /\ \A n \in 1..Len(calls[k].pieces) : calls[k].pieces[n] = told'[i].pieces[n]
        <5> HIDE <1>0
        <5> DEFINE p == calls[k].pieces
                   s == told[i].pieces
                   t == told'[i].pieces
        <5>1. /\ Len(p) \in Nat /\ Len(s) \in Nat /\ Len(t) \in Nat
              /\ Len(p) <= Len(s) /\ \A n \in 1..Len(p) : p[n] = s[n]
              /\ Len(s) <= Len(t) /\ \A n \in 1..Len(s) : t[n] = s[n]
          BY <4>3, <4>4, <4>5
        <5> HIDE DEF p, s, t
        <5>2. Len(p) <= Len(t) /\ \A n \in 1..Len(p) : p[n] = t[n]
          BY <5>1, LongerStill
        <5> QED BY <5>2 DEF p, s, t
      <4> QED BY <4>1, <4>2, <4>6 DEF Behind
    <3>2. CASE InPlace(i)
      BY <2>1, <3>2 DEF InPlace, CallStep, Grown, Behind, Inv, NamesInv
    <3>3. CASE AtTheEnd(i)
      <4>1. k = Len(calls) + 1
        BY <2>1, <3>3 DEF AtTheEnd, Inv, NamesInv
      <4> QED BY <4>1, <3>3 DEF AtTheEnd, CallStep, Grown, Behind
    <3> QED BY <3>1, <3>2, <3>3 DEF CallStep
  <2>2. \/ partial'[i].id = Blank
        \/ /\ partial'[i].id = IdOf(i)
           /\ \E k \in 1..Len(named') : named'[k] = IdOf(i)
    BY DEF CallStep, Aside, InPlace, AtTheEnd, Inv
  <2> QED BY <2>1, <2>2 DEF CallStep, Grown
<1> QED BY <1>1, <1>2 DEF HeldInv

LEMMA TextKept ==
  ASSUME Inv, TypeOK', NEW i \in Indexes, TextStep(i), UNCHANGED provider
  PROVE  NamesInv' /\ HeldInv'
<1>1. NamesInv'
  BY DEF TextStep, Inv, NamesInv
<1>2. partial[i] = Call(Blank) /\ ~\E k \in 1..Len(named) : named[k] = IdOf(i)
  BY DEF TextStep, Inv, HeldInv
<1>3. HeldInv'
  BY <1>2 DEF TextStep, Inv, HeldInv, Behind, Call, Blank
<1> QED BY <1>1, <1>3

LEMMA NothingKept ==
  ASSUME Inv, NoStep, UNCHANGED provider
  PROVE  NamesInv' /\ HeldInv'
<1>1. NamesInv'
  BY DEF NoStep, Inv, NamesInv
<1>2. HeldInv'
  BY DEF NoStep, Inv, HeldInv, Behind
<1> QED BY <1>1, <1>2

(***************************************************************************)
(* Types.                                                                  *)
(***************************************************************************)
Blocks == [kind : {"none", "text", "call"}, pieces : Seq(Nat),
           whole : BOOLEAN, blanked : BOOLEAN, ended : BOOLEAN]
HeldCalls == Held(Ids \cup {Blank})

LEMMA Named ==
  ASSUME TypeOK, NEW i \in Indexes
  PROVE  /\ IdOf(i) \in Ids /\ IdOf(i) # Blank
         /\ IdOf(i) \in ToSet(named) <=> \E k \in 1..Len(named) : named[k] = IdOf(i)
         /\ Append(named, IdOf(i)) \in Seq(Ids)
         /\ Len(Append(named, IdOf(i))) = Len(named) + 1
         /\ \A k \in 1..Len(named) : Append(named, IdOf(i))[k] = named[k]
         /\ Append(named, IdOf(i))[Len(named) + 1] = IdOf(i)
<1>1. IdOf(i) \in Ids /\ IdOf(i) # Blank
  BY DEF Ids, IdOf, Blank, Indexes
<1>2. named \in Seq(Ids)
  BY DEF TypeOK
<1> QED BY <1>1, <1>2 DEF ToSet

\* A piece appended to a sequence of pieces.
LEMMA Appended ==
  ASSUME NEW s \in Seq(Nat), NEW n \in Nat
  PROVE  /\ Append(s, n) \in Seq(Nat)
         /\ Len(s) \in Nat /\ Len(Append(s, n)) = Len(s) + 1
         /\ \A k \in 1..Len(s) : Append(s, n)[k] = s[k]
OBVIOUS

LEMMA SnapshotTyped ==
  ASSUME TypeOK, NEW call \in HeldCalls, Snapshot(call)
  PROVE  /\ calls' \in Seq(Held(Ids)) /\ UNCHANGED <<textParts, stopReason>>
         /\ call.id = Blank => UNCHANGED calls
         /\ call.id # Blank => call \in Held(Ids) /\ calls' = Put(call)
<1>1. calls \in Seq(Held(Ids))
  BY DEF TypeOK
<1>2. CASE call.id = Blank
  BY <1>1, <1>2 DEF Snapshot
<1>3. CASE call.id # Blank
  <2>1. call \in Held(Ids)
    BY <1>3 DEF HeldCalls, Held
  <2>2. Put(call) \in Seq(Held(Ids))
    BY <1>1, <2>1, PutInPlace, PutAtEnd
  <2> QED BY <1>3, <2>1, <2>2 DEF Snapshot
<1> QED BY <1>2, <1>3

\* The call a piece makes.
PieceCall(i, id, last) ==
  [id |-> CASE id = "given" -> IdOf(i)
            [] id = "blank" -> Blank
            [] OTHER -> partial[i].id,
   pieces |-> Append(partial[i].pieces, sent'),
   whole |-> last]

LEMMA PieceTyped ==
  ASSUME TypeOK, NEW i \in Indexes, NEW id \in {"given", "blank", "absent"},
         NEW last \in BOOLEAN, ToolCallPiece(i, id, last)
  PROVE  /\ PieceCall(i, id, last) \in HeldCalls
         /\ partial' = [partial EXCEPT ![i] = PieceCall(i, id, last)]
         /\ Snapshot(PieceCall(i, id, last))
         /\ sent' \in Nat /\ sent' = sent + 1
         /\ told'[i] \in Blocks /\ \A j \in Indexes : j # i => told'[j] = told[j]
         /\ told' \in [Indexes -> Blocks]
         /\ named' \in Seq(Ids)
<1>1. sent' \in Nat /\ sent' = sent + 1
  BY DEF ToolCallPiece, Piece, TypeOK
<1>2. partial[i] \in HeldCalls /\ partial[i].pieces \in Seq(Nat) /\ partial[i].id \in Ids \cup {Blank}
  BY DEF TypeOK, HeldCalls, Held
<1>3. told[i] \in Blocks /\ told[i].pieces \in Seq(Nat) /\ told[i].blanked \in BOOLEAN
  BY DEF TypeOK, Blocks
<1>4. PieceCall(i, id, last) \in HeldCalls
  <2>1. Append(partial[i].pieces, sent') \in Seq(Nat)
    BY <1>1, <1>2, Appended
  <2>2. IdOf(i) \in Ids
    BY Named
  <2> QED BY <1>2, <2>1, <2>2 DEF PieceCall, HeldCalls, Held
<1>5. Append(told[i].pieces, sent') \in Seq(Nat)
  BY <1>1, <1>3, Appended
<1>6. told' = [told EXCEPT ![i] =
        [kind |-> "call", pieces |-> Append(told[i].pieces, sent'), whole |-> last,
         blanked |-> id = "blank" \/ (id = "absent" /\ told[i].blanked),
         ended |-> FALSE]]
  BY DEF ToolCallPiece
<1>7. told \in [Indexes -> Blocks]
  BY DEF TypeOK, Blocks
<1>8. [kind |-> "call", pieces |-> Append(told[i].pieces, sent'), whole |-> last,
       blanked |-> id = "blank" \/ (id = "absent" /\ told[i].blanked),
       ended |-> FALSE] \in Blocks
  BY <1>5, <1>3 DEF Blocks
<1>9. named' \in Seq(Ids)
  <2>1. named \in Seq(Ids) /\ Append(named, IdOf(i)) \in Seq(Ids)
    BY Named DEF TypeOK
  <2> QED BY <2>1 DEF ToolCallPiece, Sent
<1> QED BY <1>1, <1>4, <1>6, <1>7, <1>8, <1>9 DEF ToolCallPiece, PieceCall

(***************************************************************************)
(* Each payload about a call is a CallStep.                                *)
(***************************************************************************)
LEMMA PutStep ==
  ASSUME Inv, NEW i \in Indexes, NEW call \in HeldCalls, Snapshot(call),
         partial'[i] = call, call.id = IdOf(i),
         named' = IF IdOf(i) \in ToSet(named) THEN named ELSE Append(named, IdOf(i))
  PROVE  InPlace(i) \/ AtTheEnd(i)
<1>1. call \in Held(Ids) /\ calls' = Put(call) /\ calls \in Seq(Held(Ids))
  BY SnapshotTyped, Named DEF Inv, TypeOK
<1>2. \A k \in 1..Len(calls) : calls[k].id = IdOf(i) <=> named[k] = IdOf(i)
  BY DEF Inv, NamesInv
<1>3. Len(calls) = Len(named)
  BY DEF Inv, NamesInv
<1>4. CASE \E k \in 1..Len(named) : named[k] = IdOf(i)
  <2>1. named' = named
    BY <1>4, Named DEF Inv
  <2>2. /\ Len(calls') = Len(calls)
        /\ \A k \in 1..Len(calls) :
             calls'[k] = IF calls[k].id = call.id THEN call ELSE calls[k]
    BY <1>1, <1>2, <1>3, <1>4, PutInPlace
  <2> QED BY <1>4, <2>1, <2>2 DEF InPlace
<1>5. CASE ~\E k \in 1..Len(named) : named[k] = IdOf(i)
  <2>1. named' = Append(named, IdOf(i))
    BY <1>5, Named DEF Inv
  <2>2. /\ Len(calls') = Len(calls) + 1
        /\ \A k \in 1..Len(calls) : calls'[k] = calls[k]
        /\ calls'[Len(calls) + 1] = call
    BY <1>1, <1>2, <1>3, <1>5, PutAtEnd
  <2> QED BY <1>5, <2>1, <2>2, Named DEF AtTheEnd, Inv
<1> QED BY <1>4, <1>5

LEMMA PieceStep ==
  ASSUME Inv, NEW i \in Indexes, NEW id \in {"given", "blank", "absent"},
         NEW last \in BOOLEAN, ToolCallPiece(i, id, last)
  PROVE  CallStep(i)
<1> DEFINE call == PieceCall(i, id, last)
<1>1. /\ call \in HeldCalls /\ Snapshot(call) /\ sent' \in Nat
      /\ partial' = [partial EXCEPT ![i] = call]
  BY PieceTyped DEF Inv
<1>2. told' = [told EXCEPT ![i] =
        [kind |-> "call", pieces |-> Append(told[i].pieces, sent'), whole |-> last,
         blanked |-> id = "blank" \/ (id = "absent" /\ told[i].blanked),
         ended |-> FALSE]]
  BY DEF ToolCallPiece
<1>3. told \in [Indexes -> Blocks] /\ partial \in [Indexes -> HeldCalls]
  BY DEF Inv, TypeOK, Blocks, HeldCalls
<1>4. provider = "openai" /\ partial'[i] = call
  BY <1>1, <1>3 DEF ToolCallPiece
<1>5. Grown(i)
  <2>1. Other(i)
    BY <1>1, <1>2, <1>3 DEF Other
  <2>2. Longer(i)
    <3>1. told[i].pieces \in Seq(Nat)
      BY <1>3 DEF Blocks
    <3> QED BY <1>1, <1>2, <1>3, <3>1, Appended DEF Longer
  <2>3. partial[i].pieces = told[i].pieces
    BY DEF Inv, HeldInv
  <2> QED BY <1>2, <1>3, <1>4, <2>1, <2>2, <2>3 DEF Grown, PieceCall
<1>6. CASE call.id = Blank
  <2>1. id # "given"
    BY <1>6, Named DEF PieceCall, Inv
  <2>2. UNCHANGED <<calls, named>>
    BY <1>1, <1>6, <2>1, SnapshotTyped DEF Inv, ToolCallPiece, Sent
  <2>3. (\E k \in 1..Len(named) : named[k] = IdOf(i)) => told'[i].blanked
    <3>1. CASE id = "blank"
      BY <3>1, <1>2, <1>3
    <3>2. CASE id = "absent"
      <4>1. partial[i].id = Blank
        BY <1>6, <3>2 DEF PieceCall
      <4>2. \A k \in 1..Len(named) : named[k] = IdOf(i) => told[i].blanked
        BY <4>1, Named DEF Inv, HeldInv, NamesInv
      <4> QED BY <1>2, <1>3, <3>2, <4>2
    <3> QED BY <2>1, <3>1, <3>2
  <2> QED BY <1>4, <1>5, <1>6, <2>2, <2>3 DEF CallStep, Aside
<1>7. CASE call.id # Blank
  <2>1. CASE id = "given"
    <3>1. call.id = IdOf(i)
      BY <2>1 DEF PieceCall
    <3>2. named' = IF IdOf(i) \in ToSet(named) THEN named ELSE Append(named, IdOf(i))
      BY <2>1 DEF ToolCallPiece, Sent
    <3> QED BY <1>1, <1>4, <1>5, <3>1, <3>2, PutStep DEF CallStep
  <2>2. CASE id = "absent"
    <3>1. call.id = partial[i].id
      BY <2>2 DEF PieceCall
    <3>2. call.id = IdOf(i) /\ IdOf(i) \in ToSet(named)
      BY <1>7, <3>1, Named DEF Inv, HeldInv
    <3>3. named' = named
      BY <2>2 DEF ToolCallPiece, Sent
    <3> QED BY <1>1, <1>4, <1>5, <3>2, <3>3, PutStep DEF CallStep
  <2>3. id # "blank"
    BY <1>7 DEF PieceCall
  <2> QED BY <2>1, <2>2, <2>3
<1> QED BY <1>6, <1>7

\* Anthropic's blocks: a call that begins, grows, ends.
LEMMA BlockStartStep ==
  ASSUME Inv, NEW i \in Indexes, ContentBlockStart(i, "call")
  PROVE  /\ CallStep(i) /\ UNCHANGED <<textParts, stopReason>>
         /\ named' \in Seq(Ids) /\ calls' \in Seq(Held(Ids))
         /\ partial' \in [Indexes -> HeldCalls] /\ told' \in [Indexes -> Blocks]
<1> DEFINE call == Call(IdOf(i))
<1>1. call \in HeldCalls /\ call.id = IdOf(i) /\ call.pieces = <<>> /\ call.whole = FALSE
  <2>1. IdOf(i) \in Ids
    BY Named DEF Inv
  <2> QED BY <2>1 DEF Call, HeldCalls, Held
<1>2. told \in [Indexes -> Blocks] /\ partial \in [Indexes -> HeldCalls]
  BY DEF Inv, TypeOK, Blocks, HeldCalls
<1>3. /\ provider = "anthropic" /\ told[i] = NoBlock
      /\ told' = [told EXCEPT ![i].kind = "call"]
      /\ named' = Append(named, IdOf(i))
      /\ partial' = [partial EXCEPT ![i] = call] /\ Snapshot(call)
  BY DEF ContentBlockStart, Fresh, Inv, HeldInv
<1>4. told'[i] = [NoBlock EXCEPT !.kind = "call"] /\ partial'[i] = call
  BY <1>2, <1>3
<1>5. Grown(i)
  <2>1. Other(i)
    BY <1>2, <1>3 DEF Other
  <2>2. Longer(i)
    BY <1>3, <1>4 DEF Longer, NoBlock
  <2> QED BY <1>1, <1>3, <1>4, <2>1, <2>2 DEF Grown, NoBlock
<1>6. IdOf(i) \notin ToSet(named)
  BY <1>3, Named DEF Inv, HeldInv, NoBlock
<1>7. named' = IF IdOf(i) \in ToSet(named) THEN named ELSE Append(named, IdOf(i))
  BY <1>3, <1>6
<1>8. InPlace(i) \/ AtTheEnd(i)
  BY <1>1, <1>3, <1>4, <1>7, PutStep
<1>9. named' \in Seq(Ids)
  BY <1>3, Named DEF Inv
<1>10. calls' \in Seq(Held(Ids)) /\ UNCHANGED <<textParts, stopReason>>
  BY <1>1, <1>3, SnapshotTyped DEF Inv
<1>11. told' \in [Indexes -> Blocks]
  BY <1>2, <1>3 DEF Blocks
<1> QED BY <1>1, <1>2, <1>3, <1>5, <1>8, <1>9, <1>10, <1>11 DEF CallStep

\* The call comes with its input.
LEMMA BlockGivenStep ==
  ASSUME Inv, NEW i \in Indexes, ContentBlockGiven(i)
  PROVE  /\ CallStep(i) /\ UNCHANGED <<textParts, stopReason>>
         /\ sent' \in Nat
         /\ named' \in Seq(Ids) /\ calls' \in Seq(Held(Ids))
         /\ partial' \in [Indexes -> HeldCalls] /\ told' \in [Indexes -> Blocks]
<1>1. sent' \in Nat
  BY DEF ContentBlockGiven, Piece, Inv, TypeOK
<1>n. PICK new \in Seq(Nat) : new = <<sent'>> /\ Len(new) = 1
  <2>1. <<sent'>> \in Seq(Nat) /\ Len(<<sent'>>) = 1
    BY <1>1
  <2> QED BY <2>1
<1> DEFINE call == [Call(IdOf(i)) EXCEPT !.pieces = new, !.whole = TRUE]
<1>2. /\ call \in HeldCalls /\ call.id = IdOf(i)
      /\ call.pieces = new /\ call.whole = TRUE
  <2>1. IdOf(i) \in Ids
    BY Named DEF Inv
  <2> QED BY <1>n, <2>1 DEF Call, HeldCalls, Held
<1>3. told \in [Indexes -> Blocks] /\ partial \in [Indexes -> HeldCalls]
  BY DEF Inv, TypeOK, Blocks, HeldCalls
<1>4. /\ provider = "anthropic" /\ told[i] = NoBlock
      /\ told' = [told EXCEPT ![i].kind = "call", ![i].pieces = new, ![i].whole = TRUE]
      /\ named' = Append(named, IdOf(i))
      /\ partial' = [partial EXCEPT ![i] = call] /\ Snapshot(call)
  BY <1>n DEF ContentBlockGiven, Fresh, Inv, HeldInv
<1>5. /\ told'[i] = [NoBlock EXCEPT !.kind = "call", !.pieces = new, !.whole = TRUE]
      /\ partial'[i] = call
  BY <1>3, <1>4
<1>6. Grown(i)
  <2>1. Other(i)
    BY <1>3, <1>4 DEF Other
  <2>2. Longer(i)
    <3>1. told[i].pieces = <<>>
      BY <1>4 DEF NoBlock
    <3>2. told'[i].pieces = new
      BY <1>5 DEF NoBlock
    <3>3. Len(told[i].pieces) = 0 /\ Len(told'[i].pieces) = 1
      BY <1>n, <3>1, <3>2
    <3> QED BY <3>3 DEF Longer
  <2>3. /\ told'[i].kind = "call" /\ told'[i].pieces = new
        /\ told'[i].whole = TRUE /\ ~told'[i].blanked
    BY <1>5 DEF NoBlock
  <2>4. /\ partial'[i].pieces = new /\ partial'[i].whole = TRUE
        /\ partial'[i].id = IdOf(i)
    BY <1>2, <1>5
  <2> QED BY <1>4, <2>1, <2>2, <2>3, <2>4 DEF Grown
<1>7. IdOf(i) \notin ToSet(named)
  BY <1>4, Named DEF Inv, HeldInv, NoBlock
<1>8. named' = IF IdOf(i) \in ToSet(named) THEN named ELSE Append(named, IdOf(i))
  BY <1>4, <1>7
<1>9. InPlace(i) \/ AtTheEnd(i)
  BY <1>2, <1>4, <1>5, <1>8, PutStep
<1>10. named' \in Seq(Ids)
  BY <1>4, Named DEF Inv
<1>11. calls' \in Seq(Held(Ids)) /\ UNCHANGED <<textParts, stopReason>>
  BY <1>2, <1>4, SnapshotTyped DEF Inv
<1>12. told' \in [Indexes -> Blocks]
  BY <1>n, <1>3, <1>4 DEF Blocks
<1> QED BY <1>1, <1>2, <1>3, <1>4, <1>6, <1>9, <1>10, <1>11, <1>12 DEF CallStep

LEMMA JsonDeltaStep ==
  ASSUME Inv, NEW i \in Indexes, NEW last \in BOOLEAN, InputJsonDelta(i, last)
  PROVE  /\ CallStep(i) /\ UNCHANGED <<textParts, stopReason, named>>
         /\ sent' \in Nat /\ calls' \in Seq(Held(Ids))
         /\ partial' \in [Indexes -> HeldCalls] /\ told' \in [Indexes -> Blocks]
<1> DEFINE call == [partial[i] EXCEPT !.pieces = Append(@, sent'), !.whole = last]
<1>1. told \in [Indexes -> Blocks] /\ partial \in [Indexes -> HeldCalls]
  BY DEF Inv, TypeOK, Blocks, HeldCalls
<1>2. sent' \in Nat /\ provider = "anthropic"
  BY DEF InputJsonDelta, Piece, Inv, TypeOK
<1>3. told[i].kind = "call" /\ ~told[i].ended
  BY DEF InputJsonDelta, Growing
<1>4. /\ partial[i].pieces = told[i].pieces /\ partial[i].id = IdOf(i) /\ ~told[i].blanked
      /\ told[i].pieces \in Seq(Nat)
      /\ \E k \in 1..Len(named) : named[k] = IdOf(i)
  <2>1. partial[i].id = IdOf(i)
    BY <1>2, <1>3 DEF Inv, HeldInv
  <2> QED BY <1>1, <1>2, <1>3, <2>1, Named DEF Inv, HeldInv, Blocks
<1>5. /\ Append(told[i].pieces, sent') \in Seq(Nat)
      /\ Len(told[i].pieces) <= Len(Append(told[i].pieces, sent'))
      /\ \A n \in 1..Len(told[i].pieces) : Append(told[i].pieces, sent')[n] = told[i].pieces[n]
  BY <1>2, <1>4, Appended
<1>6. call \in HeldCalls /\ call.id = IdOf(i) /\ call.whole = last
      /\ call.pieces = Append(told[i].pieces, sent')
  <2>1. partial[i] \in HeldCalls
    BY <1>1
  <2> QED BY <2>1, <1>4, <1>5 DEF HeldCalls, Held
<1>7. /\ told' = [told EXCEPT ![i].pieces = Append(@, sent'), ![i].whole = last]
      /\ partial' = [partial EXCEPT ![i] = call] /\ Snapshot(call)
      /\ named' = named
  BY DEF InputJsonDelta
<1>8. /\ told'[i] = [told[i] EXCEPT !.pieces = Append(@, sent'), !.whole = last]
      /\ told' \in [Indexes -> Blocks]
      /\ \A j \in Indexes : j # i => told'[j] = told[j]
  <2>1. told[i] \in Blocks
    BY <1>1
  <2> QED BY <1>1, <1>5, <1>7, <2>1 DEF Blocks
<1>9. /\ told'[i].pieces = Append(told[i].pieces, sent') /\ told'[i].whole = last
      /\ told'[i].kind = "call" /\ told'[i].ended = told[i].ended
      /\ told'[i].blanked = told[i].blanked
  <2>1. told[i] \in Blocks
    BY <1>1
  <2> QED BY <1>3, <1>8, <2>1 DEF Blocks
<1>10. partial'[i] = call /\ partial' \in [Indexes -> HeldCalls]
       /\ \A j \in Indexes : j # i => partial'[j] = partial[j]
  BY <1>1, <1>6, <1>7
<1>11. Grown(i)
  BY <1>2, <1>3, <1>4, <1>5, <1>6, <1>8, <1>9, <1>10 DEF Grown, Other, Longer
<1>12. InPlace(i) \/ AtTheEnd(i)
  <2>1. IdOf(i) \in ToSet(named)
    BY <1>4, Named DEF Inv
  <2> QED BY <1>6, <1>7, <1>10, <2>1, PutStep
<1>13. calls' \in Seq(Held(Ids)) /\ UNCHANGED <<textParts, stopReason>>
  BY <1>6, <1>7, SnapshotTyped DEF Inv
<1> QED BY <1>2, <1>7, <1>8, <1>10, <1>11, <1>12, <1>13 DEF CallStep

LEMMA BlockStopStep ==
  ASSUME Inv, NEW i \in Indexes, ContentBlockStop(i)
  PROVE  /\ CallStep(i) \/ TextStep(i)
         /\ UNCHANGED <<textParts, stopReason, named>> /\ calls' \in Seq(Held(Ids))
         /\ partial' \in [Indexes -> HeldCalls] /\ told' \in [Indexes -> Blocks]
<1>1. told \in [Indexes -> Blocks] /\ partial \in [Indexes -> HeldCalls]
      /\ calls \in Seq(Held(Ids))
  BY DEF Inv, TypeOK, Blocks, HeldCalls
<1>2. /\ told' = [told EXCEPT ![i].ended = TRUE] /\ named' = named
      /\ provider = "anthropic" /\ told[i].kind # "none" /\ ~told[i].ended
  BY DEF ContentBlockStop
<1>3. /\ told'[i] = [told[i] EXCEPT !.ended = TRUE]
      /\ told' \in [Indexes -> Blocks]
      /\ \A j \in Indexes : j # i => told'[j] = told[j]
  BY <1>1, <1>2 DEF Blocks
<1>4. /\ told'[i].kind = told[i].kind /\ told'[i].pieces = told[i].pieces
      /\ told'[i].blanked = told[i].blanked /\ told'[i].ended
  BY <1>1, <1>3 DEF Blocks
<1>5. CASE partial[i] = Call(Blank)
  <2>1. UNCHANGED <<partial, textParts, calls, stopReason>>
    BY <1>5 DEF ContentBlockStop, state
  <2>2. told[i].kind # "call"
    <3>1. told[i].kind = "call" => partial[i].id = IdOf(i)
      BY <1>2 DEF Inv, HeldInv
    <3> QED BY <1>5, <3>1, Named DEF Inv, Call
  <2>3. told[i].kind = "text" /\ told[i].pieces = <<>>
    <3>1. partial[i].pieces = told[i].pieces
      BY DEF Inv, HeldInv
    <3>2. told[i].kind \in {"none", "text", "call"}
      BY <1>1 DEF Blocks
    <3> QED BY <1>2, <1>5, <2>2, <3>1, <3>2 DEF Call
  <2>4. TextStep(i)
    BY <1>2, <1>3, <1>4, <2>1, <2>2, <2>3 DEF TextStep
  <2> QED BY <1>1, <1>2, <1>3, <2>1, <2>4
<1>6. CASE partial[i] # Call(Blank)
  <2> DEFINE call == [partial[i] EXCEPT !.whole = TRUE]
  <2>1. /\ told[i].kind = "call" /\ partial[i].id = IdOf(i) /\ ~told[i].blanked
        /\ partial[i].pieces = told[i].pieces
        /\ \E k \in 1..Len(named) : named[k] = IdOf(i)
    <3>1. told[i].kind = "call" /\ partial[i].id = IdOf(i)
      BY <1>2, <1>6 DEF Inv, HeldInv
    <3> QED BY <1>2, <3>1, Named DEF Inv, HeldInv
  <2>2. call \in HeldCalls /\ call.id = IdOf(i) /\ call.whole /\ call.pieces = told[i].pieces
    <3>1. partial[i] \in HeldCalls
      BY <1>1
    <3> QED BY <2>1, <3>1 DEF HeldCalls, Held
  <2>3. partial' = [partial EXCEPT ![i] = call] /\ Snapshot(call)
    BY <1>6 DEF ContentBlockStop
  <2>4. partial'[i] = call /\ partial' \in [Indexes -> HeldCalls]
        /\ \A j \in Indexes : j # i => partial'[j] = partial[j]
    BY <1>1, <2>2, <2>3
  <2>5. Len(told[i].pieces) \in Nat
    BY Sized DEF Sizes, Inv
  <2>6. Grown(i)
    BY <1>2, <1>3, <1>4, <2>1, <2>2, <2>4, <2>5 DEF Grown, Other, Longer
  <2>7. InPlace(i) \/ AtTheEnd(i)
    <3>1. IdOf(i) \in ToSet(named)
      BY <2>1, Named DEF Inv
    <3> QED BY <1>2, <2>2, <2>3, <2>4, <3>1, PutStep
  <2>8. calls' \in Seq(Held(Ids)) /\ UNCHANGED <<textParts, stopReason>>
    BY <2>2, <2>3, SnapshotTyped DEF Inv
  <2> QED BY <1>2, <1>3, <2>4, <2>6, <2>7, <2>8 DEF CallStep
<1> QED BY <1>5, <1>6

LEMMA TextStartStep ==
  ASSUME Inv, NEW i \in Indexes, ContentBlockStart(i, "text")
  PROVE  /\ TextStep(i) /\ UNCHANGED <<textParts, stopReason>>
         /\ told' \in [Indexes -> Blocks]
<1>1. told \in [Indexes -> Blocks]
  BY DEF Inv, TypeOK, Blocks
<1>2. /\ provider = "anthropic" /\ told[i] = NoBlock
      /\ told' = [told EXCEPT ![i].kind = "text"]
      /\ UNCHANGED <<named, partial, textParts, calls, stopReason>>
  BY DEF ContentBlockStart, Fresh, Inv, HeldInv, state
<1>3. told'[i] = [NoBlock EXCEPT !.kind = "text"]
  BY <1>1, <1>2
<1>4. told' \in [Indexes -> Blocks]
  BY <1>1, <1>2 DEF Blocks
<1> QED BY <1>1, <1>2, <1>3, <1>4 DEF TextStep, NoBlock

(***************************************************************************)
(* Every step is one of these, and the message is made once.               *)
(***************************************************************************)
BlockStep ==
  \/ NoStep
  \/ \E i \in Indexes : CallStep(i) \/ TextStep(i)

Typed ==
  /\ told' \in [Indexes -> Blocks] /\ partial' \in [Indexes -> HeldCalls]
  /\ named' \in Seq(Ids) /\ calls' \in Seq(Held(Ids))

LEMMA Unchanged ==
  ASSUME Inv, NoStep PROVE BlockStep /\ Typed
BY DEF Inv, TypeOK, NoStep, BlockStep, Typed, Blocks, HeldCalls

LEMMA EveryStep ==
  ASSUME Inv, [Next]_vars PROVE BlockStep /\ Typed
<1>1. ASSUME Content \/ MessageStop \/ Materialize \/ Fail
             \/ \E r \in {"stop", "length", "tool"} : FinishReason(r) \/ MessageDelta(r)
      PROVE  NoStep
  BY <1>1 DEF Content, Text, MessageStop, Materialize, Fail, FinishReason, MessageDelta,
              Stops, Finish, NoStep, server, state
<1>2. ASSUME NEW i \in Indexes, NEW id \in {"given", "blank", "absent"},
             NEW last \in BOOLEAN, ToolCallPiece(i, id, last)
      PROVE  BlockStep /\ Typed
  <2>1. CallStep(i)
    BY <1>2, PieceStep
  <2>2. partial \in [Indexes -> HeldCalls]
    BY DEF Inv, TypeOK, HeldCalls
  <2>3. Typed
    BY <1>2, <2>2, PieceTyped, SnapshotTyped DEF Inv, Typed
  <2> QED BY <2>1, <2>3 DEF BlockStep
<1>3. ASSUME NEW i \in Indexes, ContentBlockStart(i, "text")
      PROVE  BlockStep /\ Typed
  BY <1>3, TextStartStep DEF BlockStep, Typed, TextStep, Inv, TypeOK, HeldCalls
<1>4. ASSUME NEW i \in Indexes, ContentBlockStart(i, "call")
      PROVE  BlockStep /\ Typed
  BY <1>4, BlockStartStep DEF BlockStep, Typed
<1>5. ASSUME NEW i \in Indexes, TextDelta(i) PROVE NoStep
  BY <1>5 DEF TextDelta, Text, NoStep
<1>6. ASSUME NEW i \in Indexes, NEW last \in BOOLEAN, InputJsonDelta(i, last)
      PROVE  BlockStep /\ Typed
  BY <1>6, JsonDeltaStep DEF BlockStep, Typed, Inv, TypeOK
<1>7. ASSUME NEW i \in Indexes, ContentBlockStop(i) PROVE BlockStep /\ Typed
  BY <1>7, BlockStopStep DEF BlockStep, Typed, Inv, TypeOK
<1>8. ASSUME NEW i \in Indexes, ContentBlockGiven(i) PROVE BlockStep /\ Typed
  BY <1>8, BlockGivenStep DEF BlockStep, Typed
<1>9. CASE UNCHANGED vars
  BY <1>9, Unchanged DEF vars, server, state, NoStep
<1> QED BY <1>1, <1>2, <1>3, <1>4, <1>5, <1>6, <1>7, <1>8, <1>9, Unchanged DEF Next

(***************************************************************************)
(* The rest of the types, and the text.                                    *)
(***************************************************************************)
Scalars ==
  /\ provider' \in {"openai", "anthropic"} /\ tools' \in BOOLEAN
  /\ sent' \in Nat /\ over' \in BOOLEAN
  /\ said' \in Seq(Nat) /\ textParts' \in Seq(Nat)
  /\ reason' \in {"none", "stop", "length", "tool"}
  /\ stopReason' \in {"stop", "length", "toolUse", "max_tokens", "end_turn"}
  /\ textParts' = said'

Quiet ==
  /\ UNCHANGED <<provider, tools, over, reason, message, said, textParts, stopReason>>
  /\ sent' \in Nat

LEMMA QuietTyped ==
  ASSUME TypeOK, TextInv, Quiet PROVE Scalars /\ UNCHANGED message
BY DEF TypeOK, TextInv, Quiet, Scalars

LEMMA ScalarsStep ==
  ASSUME Inv, TextInv, [Next]_vars, ~Materialize, ~Fail
  PROVE  Scalars /\ UNCHANGED message
<1> USE DEF Inv
<1>1. /\ provider \in {"openai", "anthropic"} /\ tools \in BOOLEAN
      /\ sent \in Nat /\ over \in BOOLEAN /\ said \in Seq(Nat) /\ textParts = said
      /\ reason \in {"none", "stop", "length", "tool"}
      /\ stopReason \in {"stop", "length", "toolUse", "max_tokens", "end_turn"}
  BY DEF TypeOK, TextInv
<1>2. ASSUME Content \/ \E i \in Indexes : TextDelta(i)
      PROVE  Scalars /\ UNCHANGED message
  <2>1. /\ UNCHANGED <<provider, tools, over, reason, message, stopReason>>
        /\ sent' = sent + 1
        /\ said' = Append(said, sent') /\ textParts' = Append(textParts, sent')
    BY <1>2 DEF Content, TextDelta, Piece, Text
  <2>2. Append(said, sent') \in Seq(Nat)
    BY <1>1, <2>1, Appended
  <2> QED BY <1>1, <2>1, <2>2 DEF Scalars
<1>3. ASSUME NEW i \in Indexes, NEW id \in {"given", "blank", "absent"},
             NEW last \in BOOLEAN, ToolCallPiece(i, id, last)
      PROVE  Quiet
  <2>1. UNCHANGED <<textParts, stopReason>> /\ sent' \in Nat
    BY <1>3, PieceTyped, SnapshotTyped
  <2> QED BY <1>3, <2>1 DEF ToolCallPiece, Piece, Quiet
<1>4. ASSUME NEW r \in {"stop", "length", "tool"}, FinishReason(r)
      PROVE  Scalars /\ UNCHANGED message
  <2>1. /\ UNCHANGED <<provider, tools, sent, said, textParts, message>>
        /\ over' = TRUE /\ reason' = r
        /\ stopReason' \in {"stop", "length", "toolUse"}
    BY <1>4 DEF FinishReason, Stops, Finish
  <2> QED BY <1>1, <2>1 DEF Scalars
<1>5. ASSUME NEW r \in {"stop", "length", "tool"}, MessageDelta(r)
      PROVE  Scalars /\ UNCHANGED message
  <2>1. /\ UNCHANGED <<provider, tools, sent, said, textParts, message, over>>
        /\ reason' = r
        /\ stopReason' \in {"max_tokens", "end_turn", "toolUse"}
    BY <1>5 DEF MessageDelta, Stops, Finish
  <2> QED BY <1>1, <2>1 DEF Scalars
<1>6. ASSUME NEW i \in Indexes, ContentBlockStart(i, "text")
             \/ ContentBlockStart(i, "call") \/ ContentBlockStop(i)
      PROVE  Quiet
  <2>1. UNCHANGED <<textParts, stopReason>>
    BY <1>6, TextStartStep, BlockStartStep, BlockStopStep
  <2> QED BY <1>1, <1>6, <2>1 DEF ContentBlockStart, ContentBlockStop, Quiet
<1>7. ASSUME NEW i \in Indexes, NEW last \in BOOLEAN, InputJsonDelta(i, last)
      PROVE  Quiet
  <2>1. UNCHANGED <<textParts, stopReason>> /\ sent' \in Nat
    BY <1>7, JsonDeltaStep
  <2> QED BY <1>7, <2>1 DEF InputJsonDelta, Piece, Quiet
<1>8. ASSUME MessageStop PROVE Scalars /\ UNCHANGED message
  BY <1>1, <1>8 DEF MessageStop, Finish, Scalars
<1>9. ASSUME NEW i \in Indexes, ContentBlockGiven(i) PROVE Quiet
  <2>1. UNCHANGED <<textParts, stopReason>> /\ sent' \in Nat
    BY <1>9, BlockGivenStep
  <2> QED BY <1>9, <2>1 DEF ContentBlockGiven, Piece, Quiet
<1>10. CASE UNCHANGED vars
  BY <1>1, <1>10 DEF vars, server, state, Quiet, Scalars
<1> QED BY <1>2, <1>3, <1>4, <1>5, <1>6, <1>7, <1>8, <1>9, <1>10, QuietTyped DEF Next

(***************************************************************************)
(* The message.                                                            *)
(***************************************************************************)
Messages == [state : {"none", "done", "failed"}, text : Seq(Nat),
             calls : Seq(Argued(Ids)), stop : StopReasons]

LEMMA Materialized ==
  ASSUME Inv, TextInv, Materialize
  PROVE  message' \in Messages /\ MessageAsSent'
<1> DEFINE made == IF tools THEN [k \in 1..Len(calls) |-> Parsed(calls[k])] ELSE <<>>
<1>1. /\ calls \in Seq(Held(Ids)) /\ textParts \in Seq(Nat) /\ tools \in BOOLEAN
      /\ textParts = said /\ Len(calls) \in Nat
  BY DEF Inv, TypeOK, TextInv
<1>2. ASSUME NEW k \in 1..Len(calls) PROVE Parsed(calls[k]) \in Argued(Ids)
  <2>1. calls[k] \in Held(Ids)
    BY <1>1, <1>2
  <2> QED BY <2>1 DEF Held, Parsed, Argued
<1>3. made \in Seq(Argued(Ids)) /\ Len(made) = (IF tools THEN Len(calls) ELSE 0)
      /\ \A k \in 1..Len(made) : tools /\ k \in 1..Len(calls) /\ made[k] = Parsed(calls[k])
  BY <1>1, <1>2
<1>4. /\ message' = [state |-> "done", text |-> textParts, calls |-> made,
                     stop |-> IF ToAgentStopReason = "toolUse" /\ ~tools
                              THEN "stop" ELSE ToAgentStopReason]
      /\ UNCHANGED <<tools, told, named, said>>
  BY DEF Materialize, server
<1>5. message' \in Messages
  <2>1. ToAgentStopReason \in StopReasons /\ "stop" \in StopReasons
    BY DEF ToAgentStopReason, StopReasons
  <2> QED BY <1>1, <1>3, <1>4, <2>1 DEF Messages
<1>6. ASSUME NEW k \in 1..Len(made)
      PROVE  /\ made[k].id = named[k]
             /\ told[named[k] - 1].blanked \/ made[k].pieces = Arguments(named[k])
  <2>1. k \in 1..Len(named) /\ calls[k].id = named[k] /\ named[k] \in Ids
    <3>1. named \in Seq(Ids) /\ Len(calls) = Len(named)
      BY DEF Inv, TypeOK, NamesInv
    <3> QED BY <1>3, <1>6, <3>1 DEF Inv, NamesInv
  <2>2. PICK i \in Indexes : named[k] = IdOf(i)
    BY <2>1 DEF Ids
  <2>3. named[k] - 1 = i
    BY <2>2 DEF IdOf, Indexes
  <2>4. ASSUME ~told[i].blanked PROVE made[k].pieces = Arguments(named[k])
    <3>1. /\ told[i].kind = "call" /\ calls[k] = partial[i]
          /\ partial[i].pieces = told[i].pieces
          /\ partial[i].whole <=> told[i].whole \/ told[i].ended
      BY <2>1, <2>2, <2>4 DEF Inv, HeldInv
    <3> QED BY <1>3, <1>6, <2>3, <3>1 DEF Parsed, Arguments
  <2>5. made[k].id = named[k]
    BY <1>3, <1>6, <2>1 DEF Parsed
  <2> QED BY <2>3, <2>4, <2>5
<1>7. Len(calls) = Len(named)
  BY DEF Inv, NamesInv
<1>8. /\ message'.text = textParts /\ message'.calls = made
  BY <1>4
<1>9. MessageAsSent'
  BY <1>1, <1>3, <1>4, <1>6, <1>7, <1>8 DEF MessageAsSent, Arguments
<1> QED BY <1>5, <1>9

\* Nothing is told to a message that is there.
LEMMA Closed ==
  ASSUME [Next]_vars, message # NoMessage
  PROVE  UNCHANGED <<message, tools, told, named, said>>
BY DEF Next, Content, ToolCallPiece, Piece, FinishReason, Stops, ContentBlockStart,
       ContentBlockGiven, TextDelta,
       InputJsonDelta, ContentBlockStop, MessageDelta, MessageStop, Receiving,
       Materialize, Fail, vars, server

LEMMA InvStep ==
  ASSUME IInv, [Next]_vars
  PROVE  IInv'
<1>1. Inv /\ TextInv /\ TypeOK /\ MessageAsSent
  BY DEF IInv, Inv
<1>2. BlockStep /\ Typed
  BY <1>1, EveryStep
<1>3. Scalars /\ message' \in Messages /\ MessageAsSent'
  <2>1. CASE Materialize
    BY <1>1, <2>1, Materialized DEF Materialize, server, state, Scalars, TypeOK, TextInv
  <2>2. CASE Fail
    <3>1. message' \in Messages
      BY <2>2 DEF Fail, Messages, StopReasons
    <3>2. MessageAsSent'
      BY <2>2 DEF Fail, MessageAsSent
    <3> QED BY <1>1, <2>2, <3>1, <3>2 DEF Fail, server, state, Scalars, TypeOK, TextInv
  <2>3. CASE ~Materialize /\ ~Fail
    <3>1. Scalars /\ UNCHANGED message
      BY <1>1, <2>3, ScalarsStep
    <3>2. CASE message = NoMessage
      BY <1>1, <3>1, <3>2 DEF MessageAsSent, NoMessage, TypeOK, Messages
    <3>3. CASE message # NoMessage
      BY <1>1, <3>1, <3>3, Closed DEF MessageAsSent, Arguments, TypeOK, Messages
    <3> QED BY <3>2, <3>3
  <2> QED BY <2>1, <2>2, <2>3
<1>4. TypeOK'
  BY <1>2, <1>3 DEF Typed, Scalars, TypeOK, Blocks, HeldCalls, Messages
<1>5. UNCHANGED provider
  BY DEF Next, Content, ToolCallPiece, Piece, FinishReason, Stops, ContentBlockStart,
         ContentBlockGiven, TextDelta,
         InputJsonDelta, ContentBlockStop, MessageDelta, MessageStop, Materialize, Fail, vars
<1>6. NamesInv' /\ HeldInv'
  BY <1>1, <1>2, <1>4, <1>5, NamesKept, HeldKept, TextKept, NothingKept DEF BlockStep
<1>7. TextInv'
  BY <1>3 DEF Scalars, TextInv
<1> QED BY <1>3, <1>4, <1>6, <1>7 DEF IInv

LEMMA InitInv == Init => IInv
<1> SUFFICES ASSUME Init PROVE IInv
  OBVIOUS
<1>1. TypeOK
  <2>1. /\ provider \in {"openai", "anthropic"} /\ tools \in BOOLEAN
        /\ sent \in Nat /\ over \in BOOLEAN
        /\ named \in Seq(Ids) /\ said \in Seq(Nat)
        /\ reason \in {"none", "stop", "length", "tool"}
        /\ textParts \in Seq(Nat) /\ calls \in Seq(Held(Ids))
        /\ stopReason \in {"stop", "length", "toolUse", "max_tokens", "end_turn"}
    <3>1. provider \in {"openai", "anthropic"}
      BY ProviderAssumption DEF Init
    <3>2. <<>> \in Seq(Ids) /\ <<>> \in Seq(Nat) /\ <<>> \in Seq(Held(Ids))
      OBVIOUS
    <3> QED BY <3>1, <3>2 DEF Init
  <2>2. told \in [Indexes -> Blocks]
    BY DEF Init, NoBlock, Blocks
  <2>3. partial \in [Indexes -> HeldCalls]
    BY DEF Init, Call, HeldCalls, Held
  <2>4. message \in Messages
    BY DEF Init, NoMessage, Messages, StopReasons
  <2> QED BY <2>1, <2>2, <2>3, <2>4 DEF TypeOK, Blocks, HeldCalls, Messages
<1>2. TextInv /\ NamesInv
  BY DEF Init, TextInv, NamesInv
<1>3. HeldInv
  BY DEF Init, HeldInv, NoBlock, Call, Blank, IdOf, Indexes
<1>4. MessageAsSent
  BY DEF Init, MessageAsSent, NoMessage
<1> QED BY <1>1, <1>2, <1>3, <1>4 DEF IInv

(***************************************************************************)
(* The strengthened invariant holds of every reachable state.              *)
(***************************************************************************)
THEOREM Inductive == Spec => []IInv
<1>1. IInv /\ [Next]_vars => IInv'
  BY InvStep
<1> QED BY InitInv, <1>1, PTL DEF Spec

(***************************************************************************)
(* The message is what the server sent: see MessageAsSent.                 *)
(***************************************************************************)
THEOREM AsSent == Spec => []MessageAsSent
<1>1. IInv => MessageAsSent
  BY DEF IInv
<1> QED BY Inductive, <1>1, PTL

(***************************************************************************)
(* No snapshot takes back what an earlier one of its call had: see         *)
(* SnapshotsGrow.                                                          *)
(***************************************************************************)
LEMMA GrowStep ==
  ASSUME IInv, BlockStep, Typed, NEW k \in 1..Len(calls)
  PROVE  /\ k <= Len(calls') /\ calls'[k].id = calls[k].id
         /\ IsPrefix(calls[k].pieces, calls'[k].pieces)
<1>1. calls \in Seq(Held(Ids)) /\ Len(calls) \in Nat /\ calls' \in Seq(Held(Ids))
  BY DEF IInv, TypeOK, Typed
<1>2. calls[k] \in Held(Ids) /\ calls[k].pieces \in Seq(Nat)
  <2>1. calls[k] \in Held(Ids)
    BY <1>1
  <2> QED BY <2>1 DEF Held
<1>3. CASE k \in 1..Len(calls') /\ calls'[k] = calls[k]
  BY <1>2, <1>3 DEF IsPrefix
<1>4. ASSUME NEW i \in Indexes, Grown(i), InPlace(i), calls[k].id = IdOf(i)
      PROVE  /\ k <= Len(calls') /\ calls'[k].id = calls[k].id
             /\ IsPrefix(calls[k].pieces, calls'[k].pieces)
  <2>1. /\ Len(calls') = Len(calls) /\ calls'[k] = partial'[i]
        /\ partial'[i].id = IdOf(i) /\ partial'[i].pieces = told'[i].pieces
    BY <1>4 DEF Grown, InPlace
  <2>2. named[k] = IdOf(i) /\ k \in 1..Len(named)
    BY <1>4 DEF IInv, NamesInv
  <2>3. Behind(k, i) /\ Longer(i)
    BY <1>4, <2>2 DEF IInv, HeldInv, Grown
  <2>4. /\ told[i].pieces \in Seq(Nat) /\ told'[i].pieces \in Seq(Nat)
    BY DEF IInv, TypeOK, Typed, Blocks
  <2>5. /\ Len(calls[k].pieces) <= Len(told'[i].pieces)
        /\ \A n \in 1..Len(calls[k].pieces) : calls[k].pieces[n] = told'[i].pieces[n]
    <3>1. /\ Len(calls[k].pieces) \in Nat /\ Len(told[i].pieces) \in Nat
          /\ Len(told'[i].pieces) \in Nat
      BY <1>2, <2>4
    <3>2. /\ Len(calls[k].pieces) <= Len(told[i].pieces)
          /\ Len(told[i].pieces) <= Len(told'[i].pieces)
      BY <2>3 DEF Behind, Longer
    <3>3. ASSUME NEW n \in 1..Len(calls[k].pieces)
          PROVE  calls[k].pieces[n] = told'[i].pieces[n]
      <4>1. n \in 1..Len(told[i].pieces)
        BY <3>1, <3>2
      <4> QED BY <2>3, <4>1 DEF Behind, Longer
    <3> QED BY <3>1, <3>2, <3>3
  <2>6. IsPrefix(calls[k].pieces, told'[i].pieces)
    BY <1>2, <2>4, <2>5 DEF IsPrefix
  <2> QED BY <1>1, <1>4, <2>1, <2>6
<1>5. CASE NoStep \/ \E i \in Indexes : TextStep(i) \/ Aside(i) \/ AtTheEnd(i)
  BY <1>1, <1>3, <1>5 DEF NoStep, TextStep, Aside, AtTheEnd
<1>6. ASSUME NEW i \in Indexes, InPlace(i), calls[k].id # IdOf(i)
      PROVE  k \in 1..Len(calls') /\ calls'[k] = calls[k]
  BY <1>6 DEF InPlace
<1> QED BY <1>3, <1>4, <1>5, <1>6 DEF BlockStep, CallStep

(***************************************************************************)
(* No snapshot of the calls is taken back: see SnapshotsGrow.              *)
(***************************************************************************)
THEOREM SnapshotsOnlyGrow == Spec => SnapshotsGrow
<1>1. ASSUME IInv, [Next]_vars
      PROVE  \A k \in 1..Len(calls) :
               /\ k <= Len(calls') /\ calls'[k].id = calls[k].id
               /\ IsPrefix(calls[k].pieces, calls'[k].pieces)
  BY <1>1, EveryStep, GrowStep DEF IInv, Inv
<1>2. IInv /\ [Next]_vars =>
        [ \A k \in 1..Len(calls) :
            /\ k <= Len(calls') /\ calls'[k].id = calls[k].id
            /\ IsPrefix(calls[k].pieces, calls'[k].pieces) ]_vars
  BY <1>1
<1> QED BY Inductive, <1>2, PTL DEF Spec, SnapshotsGrow
=============================================================================
