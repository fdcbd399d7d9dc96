--------------------------- MODULE CoverArtProofs ---------------------------
(***************************************************************************)
(* The safety of CoverArt for any number of entries and files.             *)
(*                                                                         *)
(* The inductive invariant IInv says which entries a source has been asked *)
(* for and had no picture of, where the pictures in hand are from, and     *)
(* that the files of an album have the picture that is in the cache.       *)
(***************************************************************************)
EXTENDS CoverArt, FiniteSetTheorems, SequenceTheorems, WellFoundedInduction, TLAPS

(* The selection of the album in hand. *)
SelectionInv ==
  pc # "select" =>
    /\ chosen # <<>> /\ IsInjective(chosen) /\ Len(chosen) <= E
    /\ target = IF Len(chosen) = 1 THEN chosen[1] ELSE Merged
    /\ options.auto = "on" => chosen = <<1>>
    /\ files < (IF options.command = "rip" THEN 1 ELSE F)

(* An entry's picture is its own. *)
OwnInv ==
  /\ \A e \in Entries : cover[e] # NoArt => cover[e].entry = e
  /\ cache # <<>> => \A e \in Entries : cache[e] # NoArt => cache[e].entry = e

(* Which entries have been asked for: those before the next one, all of the *)
(* phases that are over.                                                    *)
AllDenied(s) == denied[s] = ToSet(chosen)
DeniedInv ==
  /\ pc \in {"begin", "ask", "offer"} => told = "none"
  /\ pc = "begin" => next = 1 /\ \A s \in Source : attempt[s] = NoArt /\ denied[s] = {}
  /\ pc \in {"ask", "offer"} => phase \in 1..Len(Phases)
  /\ pc # "select" => \A s \in Source : denied[s] \subseteq ToSet(chosen)
  /\ pc = "ask" /\ ~Interactive =>
       /\ \A i \in 1..(next - 1) : i \in DOMAIN chosen => chosen[i] \in denied[Phases[phase]]
       /\ \A p \in 1..(phase - 1) : AllDenied(Phases[p])
  /\ pc = "ask" /\ Interactive =>
       /\ attempt[Phases[phase]] = NoArt =>
            \A i \in 1..(next - 1) : i \in DOMAIN chosen => chosen[i] \in denied[Phases[phase]]
       /\ attempt[Phases[phase]] # NoArt => next > Len(chosen)
       /\ phase = 1 => attempt["discogs"] = NoArt
       /\ \A p \in 1..(phase - 1) : attempt[Phases[p]] # NoArt \/ AllDenied(Phases[p])
  /\ pc = "offer" => Interactive /\ \A s \in Source : attempt[s] # NoArt \/ AllDenied(s)

(* A picture put aside is of the first entry that the source had one of. *)
FirstAmong(e, seq, asked) == \E i \in DOMAIN seq : e = seq[i] /\ \A k \in 1..(i - 1) : seq[k] \in asked
FirstOf(e, s) == FirstAmong(e, chosen, denied[s])
AttemptInv ==
  pc # "select" =>
    \A s \in Source : attempt[s] # NoArt => FirstOf(attempt[s].entry, s)

(* What is in hand while the sources are asked. *)
AskInv ==
  /\ pc = "begin" => ~HasCover(Merged)
  /\ pc \in {"ask", "offer"} /\ HasCover(target) => Len(chosen) = 1
  /\ pc \in {"ask", "offer"} /\ HasCover(target) /\ Interactive => denied["caa"] = {}
  /\ pc = "ask" /\ ~Interactive /\ options.discogs # "always" => ~HasCover(target)

(* What the call has returned. *)
ReturnInv ==
  pc = "returned" =>
    /\ result # "none"
    /\ told # "none" => FirstOf(cover[target].entry, told)
    /\ PreferenceIsKept /\ FailsOnlyWithNothing

(* What is in the cache is what the files have. *)
AlbumInv ==
  options.auto = "on" /\ options.discogs # "always" =>
    /\ options.command = "update" =>
         /\ \A f \in 1..F : embedded[f] # NoArt => cache # <<>> /\ cache[1] = embedded[f]
         /\ pc # "select" => cache # <<>> /\ (cache[1] # NoArt => cover[1] = cache[1])
    /\ options.command = "rip" => \A f \in 1..F : embedded[f] # NoArt => f = 1

IInv ==
  TypeOK /\ SelectionInv /\ OwnInv /\ DeniedInv /\ AttemptInv /\ AskInv /\ ReturnInv /\ AlbumInv

-----------------------------------------------------------------------------
(* Numbers, phases and sources. *)

(* The smallest of some numbers is one of them. *)
LEMMA MinIsIn ==
  ASSUME NEW N \in SUBSET Nat, N # {}
  PROVE  Min(N) \in N
  <1> DEFINE Less == {ss \in Nat \X Nat : ss[1] < ss[2]}
  <1>1. IsWellFoundedOn(Less, Nat)
    BY NatLessThanWellFounded, Zenon DEF OpToRel
  <1>2. PICK x \in N : \A y \in N : ~(<<y, x>> \in Less)
    BY <1>1, WFMin, Zenon
  <1>3. ASSUME NEW y \in N PROVE x <= y
    <2>1. x \in Nat /\ y \in Nat
      OBVIOUS
    <2>2. y < x => <<y, x>> \in Less
      BY <2>1
    <2>3. ~(y < x)
      BY <1>2, <2>2, Zenon
    <2> QED
      BY <2>1, <2>3
  <1> QED
    BY <1>3 DEF Min

LEMMA PhasesType ==
  ASSUME TypeOK
  PROVE  /\ Len(Phases) \in 1..3 /\ Phases \in Seq(Source)
         /\ \A p \in 1..Len(Phases) : Phases[p] \in Source
         /\ Interactive => Phases = <<"caa", "discogs">>
         /\ ~Interactive => Phases = IF options.discogs = "always" THEN <<"discogs", "caa", "discogs">>
                                     ELSE IF options.discogs = "fallback" THEN <<"caa", "discogs", "caa">>
                                     ELSE <<"caa">>
  <1>1. options.discogs \in {"no", "always", "fallback"}
    BY DEF TypeOK, Options
  <1>2. CASE Interactive
    BY <1>2 DEF Phases, Source
  <1>3. CASE ~Interactive /\ options.discogs = "always"
    BY <1>3 DEF Phases, Source
  <1>4. CASE ~Interactive /\ options.discogs = "fallback"
    BY <1>4 DEF Phases, Source
  <1>5. CASE ~Interactive /\ options.discogs = "no"
    BY <1>5 DEF Phases, Source
  <1> QED
    BY <1>1, <1>2, <1>3, <1>4, <1>5

LEMMA NextPhase ==
  ASSUME NEW n \in 1..3, NEW p \in 0..3, p < n
  PROVE  p + 1 \in 0..3 /\ p + 1 \in 1..n
  OBVIOUS

(* What asking for an entry leads to. *)
LEMMA OutcomeType ==
  ASSUME TypeOK, OwnInv, NEW s \in Source, NEW e \in Entries, NEW r \in IF s = "caa" THEN FetchCaa(e) ELSE FetchDiscogs(e)
  PROVE  /\ r.art \in Art \cup {NoArt} /\ r.error \in BOOLEAN
         /\ r.art # NoArt => r.art.entry = e
         /\ r.art = NoArt => s # "caa" \/ ~HasCover(e)
  <1>1. cover[e] \in Art \cup {NoArt} /\ (cover[e] # NoArt => cover[e].entry = e)
    BY DEF TypeOK, OwnInv
  <1>2. [source |-> s, entry |-> e] \in Art /\ NoArt \notin Art
    BY CoverArtAssumption DEF Art
  <1>3. CASE r = [art |-> cover[e], error |-> FALSE] /\ HasCover(e)
    BY <1>1, <1>3 DEF HasCover
  <1>4. CASE r \in Outcomes(s, e) /\ (s # "caa" \/ ~HasCover(e))
    <2>1. r = [art |-> NoArt, error |-> FALSE] \/ r = [art |-> NoArt, error |-> TRUE]
          \/ r = [art |-> [source |-> s, entry |-> e], error |-> FALSE]
      BY <1>4 DEF Outcomes
    <2>2. CASE r.art = NoArt /\ r.error \in BOOLEAN
      BY <1>4, <2>2
    <2>3. CASE r = [art |-> [source |-> s, entry |-> e], error |-> FALSE]
      BY <1>2, <2>3
    <2>4. ASSUME NEW b \in BOOLEAN, r = [art |-> NoArt, error |-> b] PROVE r.art = NoArt /\ r.error \in BOOLEAN
      BY <2>4, Zenon
    <2> QED
      BY <2>1, <2>2, <2>3, <2>4, Zenon
  <1> QED
    BY <1>3, <1>4 DEF FetchCaa, FetchDiscogs, Source

(* The entries chosen, and the one that is asked. *)
LEMMA AskedType ==
  ASSUME TypeOK, SelectionInv, DeniedInv, pc = "ask", next <= Len(chosen)
  PROVE  /\ next \in DOMAIN chosen /\ next \in 1..Len(chosen) /\ Asked = chosen[next] /\ Asked \in Entries
         /\ Phases[phase] \in Source /\ phase \in 1..Len(Phases)
         /\ target \in Entries => target = Asked /\ next = 1
  <1>1. next \in 1..Len(chosen) /\ DOMAIN chosen = 1..Len(chosen) /\ Len(chosen) \in Nat
    BY DEF TypeOK
  <1>2. chosen[next] \in Entries
    BY <1>1 DEF TypeOK
  <1>3. Phases[phase] \in Source /\ phase \in 1..Len(Phases)
    BY PhasesType DEF DeniedInv
  <1>4. Merged \notin Entries
    BY CoverArtAssumption DEF Merged, Entries
  <1>5. target \in Entries => Len(chosen) = 1 /\ target = chosen[1]
    BY <1>4 DEF SelectionInv
  <1> QED
    BY <1>1, <1>2, <1>3, <1>5 DEF Asked

-----------------------------------------------------------------------------
(* The types. *)

LEMMA InitType == Init => TypeOK
  <1> SUFFICES ASSUME Init PROVE TypeOK
    OBVIOUS
  <1>1. E \in Nat \ {0} /\ F \in Nat \ {0}
    BY CoverArtAssumption
  <1>2. phase \in 0..3 /\ next \in 1..(E + 1) /\ files \in 0..F
    BY <1>1 DEF Init
  <1>3. target \in Entries \cup {Merged} /\ chosen \in Seq(Entries)
    BY DEF Init
  <1>4. cover \in [Entries \cup {Merged} -> Art \cup {NoArt}] /\ embedded \in [1..F -> Art \cup {NoArt}]
        /\ attempt \in [Source -> Art \cup {NoArt}] /\ denied \in [Source -> SUBSET Entries]
    BY DEF Init
  <1> QED
    BY <1>2, <1>3, <1>4 DEF Init, TypeOK

LEMMA SelectionType ==
  ASSUME TypeOK, NEW sel \in Selections
  PROVE  /\ sel \in Seq(Entries) /\ sel # <<>> /\ Len(sel) <= E /\ IsInjective(sel) /\ sel[1] \in Entries
         /\ options.auto = "on" => sel = <<1>>
  <1>1. E \in Nat \ {0} /\ 1 \in Entries
    BY CoverArtAssumption DEF Entries
  <1>2. CASE options.auto = "on"
    <2>1. sel = <<1>>
      BY <1>2 DEF Selections
    <2> QED
      BY <1>1, <2>1 DEF IsInjective
  <1>3. CASE options.auto # "on"
    <2>1. sel \in UNION {[1..n -> Entries] : n \in 1..E} /\ IsInjective(sel)
      BY <1>3 DEF Selections
    <2>2. PICK n \in 1..E : sel \in [1..n -> Entries]
      BY <2>1
    <2>3. sel \in Seq(Entries) /\ Len(sel) = n /\ n >= 1 /\ 1 \in 1..n
      BY <1>1, <2>2
    <2> QED
      BY <1>1, <1>3, <2>1, <2>2, <2>3
  <1> QED
    BY <1>2, <1>3

LEMMA SelectType == ASSUME IInv, SelectEntries PROVE TypeOK' /\ SelectionInv'
  <1>0. TypeOK /\ E \in Nat \ {0} /\ F \in Nat \ {0}
    BY CoverArtAssumption DEF IInv
  <1>1. /\ chosen' \in Seq(Entries) /\ chosen' # <<>> /\ Len(chosen') <= E /\ IsInjective(chosen')
        /\ chosen'[1] \in Entries /\ (options.auto = "on" => chosen' = <<1>>)
    BY <1>0, SelectionType DEF SelectEntries
  <1>2. target' = (IF Len(chosen') = 1 THEN chosen'[1] ELSE Merged) /\ target' \in Entries \cup {Merged}
    BY <1>1 DEF SelectEntries
  <1>3. cover' \in [Entries \cup {Merged} -> Art \cup {NoArt}]
    <2>1. \A e \in Entries : cache # <<>> => cache[e] \in Art \cup {NoArt}
      BY <1>0 DEF TypeOK
    <2>2. cover' = [e \in Entries \cup {Merged} |-> IF e = Merged \/ cache = <<>> THEN NoArt ELSE cache[e]]
      BY DEF SelectEntries
    <2>3. \A e \in Entries \cup {Merged} : (IF e = Merged \/ cache = <<>> THEN NoArt ELSE cache[e]) \in Art \cup {NoArt}
      BY <2>1
    <2> QED
      BY <2>2, <2>3
  <1>4. cache' \in {<<>>} \cup [Entries -> Art \cup {NoArt}]
    BY <1>0 DEF SelectEntries, TypeOK
  <1>5. /\ UNCHANGED <<options, offers, files, embedded>> /\ files < (IF options.command = "rip" THEN 1 ELSE F)
        /\ pc' = "begin" /\ phase' = 0 /\ next' = 1 /\ hadError' = FALSE
        /\ attempt' \in [Source -> Art \cup {NoArt}] /\ told' = "none" /\ result' = "none"
        /\ denied' \in [Source -> SUBSET Entries]
    BY DEF SelectEntries, disc
  <1>6. phase' \in 0..3 /\ next' \in 1..(E + 1)
    BY <1>0, <1>5
  <1> QED
    BY <1>0, <1>1, <1>2, <1>3, <1>4, <1>5, <1>6 DEF TypeOK, SelectionInv

(* The selection stays while the call goes on. *)
LEMMA CallSelection ==
  ASSUME IInv, Begin \/ Fetch \/ EndPhase \/ Offer
  PROVE  /\ UNCHANGED <<options, offers, cache, files, embedded, chosen, target>> /\ pc # "select"
         /\ SelectionInv'
  <1>1. UNCHANGED <<options, offers, cache, files, embedded, chosen, target>> /\ pc # "select"
    BY DEF Begin, Fetch, EndPhase, Offer, disc, store
  <1> QED
    BY <1>1 DEF IInv, SelectionInv

(* The two ways in which asking for an entry can end. *)
LEMMA FetchCases ==
  ASSUME IInv, Fetch
  PROVE  /\ pc = "ask" /\ next <= Len(chosen)
         /\ UNCHANGED <<options, offers, cache, files, embedded, chosen, target, phase>>
         /\ \/ \E art \in Art : art.entry = Asked /\ Found(art) /\ UNCHANGED <<hadError, denied>>
            \/ /\ denied' = [denied EXCEPT ![Phases[phase]] = @ \cup {Asked}]
               /\ hadError' \in BOOLEAN /\ next' = next + 1
               /\ UNCHANGED <<cover, attempt, told, result, pc>>
               /\ Phases[phase] # "caa" \/ ~HasCover(Asked)
  <1> DEFINE s == Phases[phase]
  <1>1. /\ pc = "ask" /\ next <= Len(chosen) /\ TypeOK /\ OwnInv
        /\ UNCHANGED <<options, offers, cache, files, embedded, chosen, target, phase>>
    BY DEF Fetch, IInv, disc, store
  <1>2. Asked \in Entries /\ s \in Source
    BY <1>1, AskedType DEF IInv
  <1>3. PICK r \in IF s = "caa" THEN FetchCaa(Asked) ELSE FetchDiscogs(Asked) :
          \/ r.art # NoArt /\ Found(r.art) /\ UNCHANGED <<hadError, denied>>
          \/ /\ r.art = NoArt
             /\ denied' = [denied EXCEPT ![s] = @ \cup {Asked}]
             /\ hadError' = (hadError \/ r.error)
             /\ next' = next + 1
             /\ UNCHANGED <<cover, attempt, told, result, pc>>
    BY Zenon DEF Fetch
  <1>4. /\ r.art \in Art \cup {NoArt} /\ r.error \in BOOLEAN
        /\ r.art # NoArt => r.art.entry = Asked
        /\ r.art = NoArt => s # "caa" \/ ~HasCover(Asked)
    BY <1>1, <1>2, OutcomeType
  <1>5. CASE r.art # NoArt /\ Found(r.art) /\ UNCHANGED <<hadError, denied>>
    BY <1>1, <1>4, <1>5
  <1>6. CASE /\ r.art = NoArt
             /\ denied' = [denied EXCEPT ![s] = @ \cup {Asked}]
             /\ hadError' = (hadError \/ r.error)
             /\ next' = next + 1
             /\ UNCHANGED <<cover, attempt, told, result, pc>>
    <2>1. hadError' \in BOOLEAN
      BY <1>1, <1>4, <1>6, Zenon DEF TypeOK
    <2> QED
      BY <1>1, <1>4, <1>6, <2>1
  <1> QED
    BY <1>3, <1>5, <1>6

LEMMA TypeStep == ASSUME IInv, Next PROVE TypeOK'
  <1>0. TypeOK /\ E \in Nat \ {0} /\ F \in Nat \ {0} /\ NoArt \notin Art
    BY CoverArtAssumption DEF IInv
  <1>1. CASE SelectEntries
    BY <1>1, SelectType
  <1>2. CASE Begin
    <2>1. cover' \in [Entries \cup {Merged} -> Art \cup {NoArt}]
      <3>1. CASE cover' = cover
        BY <1>0, <3>1 DEF TypeOK
      <3>2. CASE cover' # cover
        <4> DEFINE covered == {i \in DOMAIN chosen : HasCover(chosen[i])}
        <4>1. covered # {} /\ cover' = [cover EXCEPT ![target] = cover[chosen[Min(covered)]]]
          BY <1>2, <3>2 DEF Begin
        <4>2. covered \in SUBSET Nat
          BY <1>0 DEF TypeOK
        <4>3. Min(covered) \in DOMAIN chosen
          BY <4>1, <4>2, MinIsIn
        <4>4. chosen[Min(covered)] \in Entries
          BY <1>0, <4>3 DEF TypeOK
        <4> QED
          BY <1>0, <4>1, <4>4 DEF TypeOK
      <3> QED
        BY <3>1, <3>2
    <2>2. phase' \in 0..3 /\ result' \in {"none", "true", "false"} /\ pc' \in {"select", "begin", "ask", "offer", "returned"}
      BY <1>0, <1>2 DEF Begin, Return, TypeOK
    <2>3. UNCHANGED <<options, offers, cache, files, embedded, chosen, target, next, hadError, attempt, told, denied>>
      BY <1>2 DEF Begin, disc, store
    <2> QED
      BY <1>0, <2>1, <2>2, <2>3 DEF TypeOK
  <1>3. CASE Fetch
    <2>1. /\ pc = "ask" /\ next <= Len(chosen)
          /\ UNCHANGED <<options, offers, cache, files, embedded, chosen, target, phase>>
      BY <1>3, FetchCases
    <2>2. next + 1 \in 1..(E + 1) /\ Len(chosen) + 1 \in 1..(E + 1) /\ Asked \in Entries /\ Phases[phase] \in Source
      <3>1. Len(chosen) <= E /\ Len(chosen) \in Nat
        BY <1>0, <2>1 DEF IInv, SelectionInv, TypeOK
      <3>2. next \in 1..(E + 1)
        BY <1>0 DEF TypeOK
      <3>3. Asked \in Entries /\ Phases[phase] \in Source
        BY <2>1, AskedType DEF IInv
      <3> QED
        BY <1>0, <2>1, <3>1, <3>2, <3>3
    <2>3. CASE \E art \in Art : art.entry = Asked /\ Found(art) /\ UNCHANGED <<hadError, denied>>
      <3>1. PICK art \in Art : Found(art) /\ UNCHANGED <<hadError, denied>>
        BY <2>3
      <3>2. CASE Interactive
        <4>1. attempt' = [attempt EXCEPT ![Phases[phase]] = art] /\ next' = Len(chosen) + 1
              /\ UNCHANGED <<cover, told, result, pc>>
          BY <3>1, <3>2 DEF Found
        <4>2. attempt' \in [Source -> Art \cup {NoArt}]
          BY <1>0, <2>2, <4>1 DEF TypeOK
        <4> QED
          BY <1>0, <2>1, <2>2, <3>1, <4>1, <4>2 DEF TypeOK
      <3>3. CASE ~Interactive
        <4>1. cover' = [cover EXCEPT ![Asked] = art, ![target] = art] /\ told' \in {told, Phases[phase]}
              /\ result' = "true" /\ pc' = "returned" /\ UNCHANGED <<attempt, next>>
          BY <3>1, <3>3 DEF Found, Return
        <4>2. cover' \in [Entries \cup {Merged} -> Art \cup {NoArt}]
          BY <1>0, <2>2, <4>1 DEF TypeOK
        <4>3. told' \in Source \cup {"none"}
          BY <1>0, <2>2, <4>1 DEF TypeOK
        <4> QED
          BY <1>0, <2>1, <3>1, <4>1, <4>2, <4>3 DEF TypeOK
      <3> QED
        BY <3>2, <3>3
    <2>4. CASE /\ denied' = [denied EXCEPT ![Phases[phase]] = @ \cup {Asked}]
               /\ hadError' \in BOOLEAN /\ next' = next + 1
               /\ UNCHANGED <<cover, attempt, told, result, pc>>
      <3>1. denied' \in [Source -> SUBSET Entries]
        BY <1>0, <2>2, <2>4 DEF TypeOK
      <3> QED
        BY <1>0, <2>1, <2>2, <2>4, <3>1 DEF TypeOK
    <2> QED
      BY <1>3, <2>3, <2>4, FetchCases
  <1>4. CASE EndPhase
    <2>1. phase' \in 0..3 /\ next' \in 1..(E + 1) /\ hadError' \in BOOLEAN
      <3>1. CASE MorePhases
        <4>1. phase < Len(Phases) /\ Len(Phases) \in 1..3
          BY <1>0, <3>1, PhasesType DEF MorePhases
        <4>2. phase' = phase + 1 /\ next' = 1
          BY <1>4, <3>1 DEF EndPhase
        <4>3. phase \in 0..3
          BY <1>0 DEF TypeOK
        <4>4. phase + 1 \in 0..3 /\ 1 \in 1..(E + 1)
          <5>1. 1 \in 1..(E + 1)
            BY <1>0
          <5> QED
            BY <4>1, <4>3, <5>1, NextPhase
        <4>5. hadError' = FALSE
          BY <1>4, <3>1, Zenon DEF EndPhase
        <4>6. phase' \in 0..3 /\ next' \in 1..(E + 1)
          BY <4>2, <4>4
        <4> QED
          BY <4>5, <4>6, Zenon
      <3>2. CASE ~MorePhases
        BY <1>0, <1>4, <3>2 DEF EndPhase, TypeOK
      <3> QED
        BY <3>1, <3>2
    <2>2. result' \in {"none", "true", "false"} /\ pc' \in {"select", "begin", "ask", "offer", "returned"}
      <3>1. result' \in {result, "true", "false"} /\ pc' \in {pc, "offer", "returned"}
        BY <1>4 DEF EndPhase, Return
      <3> QED
        BY <1>0, <3>1 DEF TypeOK
    <2>3. UNCHANGED <<options, offers, cache, files, embedded, chosen, target, cover, attempt, told, denied>>
      BY <1>4 DEF EndPhase, disc, store
    <2> QED
      BY <1>0, <2>1, <2>2, <2>3 DEF TypeOK
  <1>5. CASE Offer
    <2>1. cover' \in [Entries \cup {Merged} -> Art \cup {NoArt}] /\ told' \in Source \cup {"none"}
      <3>1. CASE UNCHANGED <<cover, told>>
        BY <1>0, <3>1 DEF TypeOK
      <3>2. CASE \E s \in Source : cover' = [cover EXCEPT ![target] = attempt[s]] /\ told' = s
        BY <1>0, <3>2 DEF TypeOK
      <3> QED
        BY <1>5, <3>1, <3>2 DEF Offer
    <2>2. result' \in {"true", "false"} /\ pc' = "returned"
      BY <1>5 DEF Offer, Return
    <2>3. UNCHANGED <<options, offers, cache, files, embedded, chosen, target, phase, next, hadError, attempt, denied>>
      BY <1>5 DEF Offer, disc, store
    <2> QED
      BY <1>0, <2>1, <2>2, <2>3 DEF TypeOK
  <1>6. CASE UpdateFile
    <2>1. files' \in 0..F /\ files' = files + 1 /\ files' \in 1..F
      <3>1. pc = "returned" /\ files' = files + 1
        BY <1>6 DEF UpdateFile
      <3>2. files < F /\ files \in 0..F
        BY <1>0, <3>1 DEF IInv, SelectionInv, TypeOK
      <3> QED
        BY <1>0, <3>1, <3>2
    <2>2. cache' \in {<<>>} \cup [Entries -> Art \cup {NoArt}]
      <3>1. [e \in Entries |-> cover[e]] \in [Entries -> Art \cup {NoArt}]
        BY <1>0 DEF TypeOK
      <3> QED
        BY <1>0, <1>6, <3>1 DEF UpdateFile, TypeOK
    <2>3. embedded' \in [1..F -> Art \cup {NoArt}]
      <3>1. cover[target] \in Art \cup {NoArt}
        BY <1>0 DEF TypeOK
      <3> QED
        BY <1>0, <1>6, <2>1, <3>1 DEF UpdateFile, TypeOK
    <2>4. pc' = "select" /\ UNCHANGED <<options, offers, chosen, target, cover, phase, next, hadError, attempt, told, result, denied>>
      BY <1>6 DEF UpdateFile, disc, call
    <2> QED
      BY <1>0, <2>1, <2>2, <2>3, <2>4 DEF TypeOK
  <1> QED
    BY <1>1, <1>2, <1>3, <1>4, <1>5, <1>6 DEF Next

-----------------------------------------------------------------------------
(* The parts of the invariant, each kept by every step. *)

LEMMA SelectionStep == ASSUME IInv, Next PROVE SelectionInv'
  <1>1. CASE SelectEntries
    BY <1>1, SelectType
  <1>2. CASE Begin \/ Fetch \/ EndPhase \/ Offer
    BY <1>2, CallSelection
  <1>3. CASE UpdateFile
    BY <1>3 DEF UpdateFile, SelectionInv
  <1> QED
    BY <1>1, <1>2, <1>3 DEF Next

(* Where a picture goes that was found for the entry asked. *)
LEMMA FoundCover ==
  ASSUME IInv, Fetch, NEW art \in Art, art.entry = Asked, Found(art), ~Interactive
  PROVE  /\ cover' = [cover EXCEPT ![Asked] = art, ![target] = art]
         /\ cover' \in [Entries \cup {Merged} -> Art \cup {NoArt}]
         /\ cover'[target] = art /\ cover'[Asked] = art
         /\ \A e \in Entries : e # Asked => cover'[e] = cover[e]
         /\ told' = (IF HasCover(Asked) THEN told ELSE Phases[phase]) /\ result' = "true" /\ pc' = "returned"
  <1>1. cover' = [cover EXCEPT ![Asked] = art, ![target] = art]
        /\ told' = (IF HasCover(Asked) THEN told ELSE Phases[phase]) /\ result' = "true" /\ pc' = "returned"
    BY DEF Found, Return
  <1>2. TypeOK /\ TypeOK'
    BY TypeStep DEF IInv, Next
  <1>3. Asked \in Entries /\ (target \in Entries => target = Asked)
    BY FetchCases, AskedType DEF IInv
  <1>4. target \in Entries \cup {Merged} /\ cover \in [Entries \cup {Merged} -> Art \cup {NoArt}]
        /\ cover' \in [Entries \cup {Merged} -> Art \cup {NoArt}]
    BY <1>2 DEF TypeOK
  <1>5. cover'[target] = art /\ cover'[Asked] = art
    BY <1>1, <1>3, <1>4
  <1>6. ASSUME NEW e \in Entries, e # Asked PROVE cover'[e] = cover[e]
    BY <1>1, <1>3, <1>4, <1>6
  <1> QED
    BY <1>1, <1>4, <1>5, <1>6

(* A picture that is found may be put aside instead. *)
LEMMA FoundAttempt ==
  ASSUME IInv, Fetch, NEW art \in Art, Found(art), Interactive
  PROVE  /\ attempt' = [attempt EXCEPT ![Phases[phase]] = art] /\ next' = Len(chosen) + 1
         /\ UNCHANGED <<cover, told, result, pc>>
  BY DEF Found

LEMMA OwnStep == ASSUME IInv, Next PROVE OwnInv'
  <1>0. TypeOK /\ OwnInv /\ SelectionInv /\ Merged \notin Entries /\ TypeOK'
    BY CoverArtAssumption, TypeStep DEF IInv, Merged, Entries
  <1>1. CASE SelectEntries
    <2>1. cover' = [e \in Entries \cup {Merged} |-> IF e = Merged \/ cache = <<>> THEN NoArt ELSE cache[e]]
          /\ cache' \in {cache, [e \in Entries |-> NoArt]}
      BY <1>1 DEF SelectEntries
    <2>2. \A e \in Entries : cover'[e] # NoArt => cover'[e].entry = e
      BY <1>0, <2>1 DEF OwnInv
    <2>3. cache' # <<>> => \A e \in Entries : cache'[e] # NoArt => cache'[e].entry = e
      BY <1>0, <2>1 DEF OwnInv
    <2> QED
      BY <2>2, <2>3 DEF OwnInv
  <1>2. CASE Begin
    <2>1. cache' = cache /\ target' = target
      BY <1>2, CallSelection
    <2>2. CASE cover' = cover
      BY <1>0, <2>1, <2>2 DEF OwnInv
    <2>3. CASE cover' # cover
      <3> DEFINE covered == {i \in DOMAIN chosen : HasCover(chosen[i])}
      <3>1. ~HasCover(target) /\ covered # {} /\ cover' = [cover EXCEPT ![target] = cover[chosen[Min(covered)]]]
        BY <1>2, <2>3 DEF Begin
      <3>2. target \notin Entries
        <4>1. target \in Entries => Len(chosen) = 1 /\ target = chosen[1] /\ DOMAIN chosen = {1}
          BY <1>0, <1>2, CallSelection DEF SelectionInv, TypeOK
        <4> QED
          BY <3>1, <4>1
      <3>3. \A e \in Entries : cover'[e] = cover[e]
        BY <1>0, <3>1, <3>2 DEF TypeOK
      <3> QED
        BY <1>0, <2>1, <3>3 DEF OwnInv
    <2> QED
      BY <2>2, <2>3
  <1>3. CASE Fetch
    <2>1. cache' = cache
      BY <1>3, FetchCases
    <2>2. CASE cover' = cover
      BY <1>0, <2>1, <2>2 DEF OwnInv
    <2>3. CASE cover' # cover
      <3>1. PICK art \in Art : art.entry = Asked /\ Found(art) /\ ~Interactive
        BY <1>3, <2>3, FetchCases, FoundAttempt
      <3>2. /\ cover'[Asked] = art
            /\ \A e \in Entries : e # Asked => cover'[e] = cover[e]
        BY <1>3, <3>1, FoundCover
      <3> QED
        BY <1>0, <2>1, <3>1, <3>2 DEF OwnInv
    <2> QED
      BY <2>2, <2>3
  <1>4. CASE EndPhase
    BY <1>0, <1>4 DEF EndPhase, OwnInv, store
  <1>5. CASE Offer
    <2>1. cache' = cache
      BY <1>5, CallSelection
    <2>2. CASE cover' = cover
      BY <1>0, <2>1, <2>2 DEF OwnInv
    <2>3. CASE \E s \in Source : attempt[s] # NoArt /\ cover' = [cover EXCEPT ![target] = attempt[s]]
      <3>1. PICK s \in Source : attempt[s] # NoArt /\ cover' = [cover EXCEPT ![target] = attempt[s]]
        BY <2>3
      <3>2. target \in Entries => attempt[s].entry = target
        <4>1. pc # "select"
          BY <1>5, CallSelection
        <4>2. PICK i \in DOMAIN chosen : attempt[s].entry = chosen[i]
          BY <3>1, <4>1 DEF IInv, AttemptInv, FirstOf, FirstAmong
        <4>3. target \in Entries => target = chosen[1] /\ DOMAIN chosen = {1}
          BY <1>0, <4>1 DEF SelectionInv, TypeOK
        <4> QED
          BY <4>2, <4>3
      <3>3. ASSUME NEW e \in Entries, cover'[e] # NoArt PROVE cover'[e].entry = e
        <4>1. cover'[e] = IF e = target THEN attempt[s] ELSE cover[e]
          BY <1>0, <3>1 DEF TypeOK
        <4> QED
          BY <1>0, <3>2, <3>3, <4>1 DEF OwnInv
      <3> QED
        BY <1>0, <2>1, <3>3 DEF OwnInv
    <2> QED
      BY <1>5, <2>2, <2>3 DEF Offer
  <1>6. CASE UpdateFile
    <2>1. cover' = cover /\ cache' \in {cache, [e \in Entries |-> cover[e]]}
      BY <1>6 DEF UpdateFile, call
    <2> QED
      BY <1>0, <2>1 DEF OwnInv
  <1> QED
    BY <1>1, <1>2, <1>3, <1>4, <1>5, <1>6 DEF Next

-----------------------------------------------------------------------------
(* What has been asked for. *)

(* A source that has no picture for an entry is one more it was denied. *)
LEMMA DeniedMore ==
  ASSUME IInv, Fetch, denied' = [denied EXCEPT ![Phases[phase]] = @ \cup {Asked}]
  PROVE  /\ \A s \in Source : denied[s] \subseteq denied'[s] /\ denied'[s] \subseteq ToSet(chosen)
         /\ \A s \in Source : s # Phases[phase] => denied'[s] = denied[s]
         /\ \A s \in Source : AllDenied(s) => denied'[s] = ToSet(chosen)
         /\ Asked \in denied'[Phases[phase]]
  <1>1. pc = "ask" /\ next <= Len(chosen) /\ TypeOK
    BY FetchCases DEF IInv
  <1>2. Asked = chosen[next] /\ next \in DOMAIN chosen /\ Phases[phase] \in Source
    BY <1>1, AskedType DEF IInv
  <1>3. Asked \in ToSet(chosen)
    BY <1>2 DEF ToSet
  <1>4. \A s \in Source : denied[s] \subseteq ToSet(chosen)
    BY <1>1 DEF IInv, DeniedInv
  <1>5. \A s \in Source : denied'[s] = IF s = Phases[phase] THEN denied[s] \cup {Asked} ELSE denied[s]
    BY <1>1, <1>2 DEF TypeOK
  <1>6. Asked \in denied'[Phases[phase]]
    BY <1>2, <1>5
  <1>7. ASSUME NEW s \in Source
        PROVE  /\ denied[s] \subseteq denied'[s] /\ denied'[s] \subseteq ToSet(chosen)
               /\ denied[s] = ToSet(chosen) => denied'[s] = ToSet(chosen)
    BY <1>3, <1>4, <1>5
  <1> QED
    BY <1>5, <1>6, <1>7 DEF AllDenied

(* A phase that is over has asked its source for every entry. *)
LEMMA PhaseOver ==
  ASSUME IInv, pc = "ask", next > Len(chosen)
  PROVE  /\ phase \in 1..Len(Phases)
         /\ ~Interactive => \A p \in 1..phase : AllDenied(Phases[p])
         /\ Interactive => \A p \in 1..phase : attempt[Phases[p]] # NoArt \/ AllDenied(Phases[p])
  <1>1. /\ TypeOK /\ phase \in 1..Len(Phases) /\ Len(Phases) \in 1..3 /\ Phases[phase] \in Source
        /\ DOMAIN chosen = 1..Len(chosen) /\ Len(chosen) \in Nat /\ next \in Nat
    BY PhasesType DEF IInv, DeniedInv, TypeOK
  <1>2. ASSUME \A i \in 1..(next - 1) : i \in DOMAIN chosen => chosen[i] \in denied[Phases[phase]]
        PROVE  AllDenied(Phases[phase])
    <2>1. \A i \in DOMAIN chosen : chosen[i] \in denied[Phases[phase]]
      BY <1>1, <1>2
    <2>2. denied[Phases[phase]] \subseteq ToSet(chosen)
      BY <1>1 DEF IInv, DeniedInv
    <2> QED
      BY <2>1, <2>2 DEF AllDenied, ToSet
  <1>3. \A p \in 1..phase : p = phase \/ p \in 1..(phase - 1)
    BY <1>1
  <1>4. ASSUME ~Interactive, NEW p \in 1..phase PROVE AllDenied(Phases[p])
    <2>1. /\ \A i \in 1..(next - 1) : i \in DOMAIN chosen => chosen[i] \in denied[Phases[phase]]
          /\ \A q \in 1..(phase - 1) : AllDenied(Phases[q])
      BY <1>4 DEF IInv, DeniedInv
    <2> QED
      BY <1>2, <1>3, <2>1
  <1>5. ASSUME Interactive, NEW p \in 1..phase PROVE attempt[Phases[p]] # NoArt \/ AllDenied(Phases[p])
    <2>1. /\ attempt[Phases[phase]] = NoArt =>
               \A i \in 1..(next - 1) : i \in DOMAIN chosen => chosen[i] \in denied[Phases[phase]]
          /\ \A q \in 1..(phase - 1) : attempt[Phases[q]] # NoArt \/ AllDenied(Phases[q])
      BY <1>5 DEF IInv, DeniedInv
    <2> QED
      BY <1>2, <1>3, <2>1
  <1> QED
    BY <1>1, <1>4, <1>5

LEMMA DeniedStep == ASSUME IInv, Next PROVE DeniedInv'
  <1>0. TypeOK /\ DeniedInv /\ SelectionInv /\ TypeOK' /\ Source = {"caa", "discogs"}
    BY TypeStep DEF IInv, Source
  <1>1. CASE SelectEntries
    <2>1. /\ pc' = "begin" /\ next' = 1 /\ told' = "none"
          /\ attempt' = [s \in Source |-> NoArt] /\ denied' = [s \in Source |-> {}]
      BY <1>1 DEF SelectEntries
    <2> QED
      BY <2>1 DEF DeniedInv
  <1>2. ASSUME Begin \/ Fetch \/ EndPhase \/ Offer
        PROVE  Phases' = Phases /\ Interactive' = Interactive /\ chosen' = chosen
    <2>1. options' = options /\ chosen' = chosen
      BY <1>2, CallSelection
    <2>2. Interactive' = Interactive
      BY <2>1, Zenon DEF Interactive
    <2>3. Phases' = Phases
      BY <2>1, <2>2 DEF Phases
    <2> QED
      BY <2>1, <2>2, <2>3
  <1>3. CASE Begin
    <2>1. /\ UNCHANGED <<chosen, denied, attempt, told, next>> /\ Phases' = Phases /\ Interactive' = Interactive
          /\ pc = "begin" /\ (pc' = "returned" \/ (pc' = "ask" /\ phase' = 1))
      BY <1>0, <1>2, <1>3 DEF Begin, Return
    <2>2. told = "none" /\ next = 1 /\ \A s \in Source : attempt[s] = NoArt /\ denied[s] = {}
      BY <1>0, <2>1 DEF DeniedInv
    <2>3. 1 \in 1..Len(Phases)
      BY <1>0, PhasesType
    <2>4. CASE pc' = "returned"
      BY <2>1, <2>2, <2>4 DEF DeniedInv
    <2>5. CASE pc' = "ask" /\ phase' = 1
      <3>1. 1..(next' - 1) = {} /\ 1..(phase' - 1) = {} /\ phase' \in 1..Len(Phases')
        BY <2>1, <2>2, <2>3, <2>5
      <3>2. Phases'[1] \in Source /\ "discogs" \in Source
        BY <1>0, <2>1, <2>3, PhasesType
      <3> QED
        BY <2>1, <2>2, <2>5, <3>1, <3>2 DEF DeniedInv
    <2> QED
      BY <2>1, <2>4, <2>5
  <1>4. CASE Fetch
    <2>1. /\ pc = "ask" /\ next <= Len(chosen) /\ UNCHANGED <<chosen, phase, options>>
          /\ Phases' = Phases /\ Interactive' = Interactive
      BY <1>2, <1>4, FetchCases
    <2>2. /\ Phases[phase] \in Source /\ phase \in 1..Len(Phases) /\ Len(Phases) \in 1..3
          /\ (\A p \in 1..(phase - 1) : Phases[p] \in Source) /\ next \in Nat /\ Len(chosen) \in Nat
      BY <1>0, <2>1, PhasesType DEF DeniedInv, TypeOK
    <2>3. CASE \E art \in Art : art.entry = Asked /\ Found(art) /\ UNCHANGED <<hadError, denied>>
      <3>1. PICK art \in Art : art.entry = Asked /\ Found(art) /\ UNCHANGED denied
        BY <2>3
      <3>2. CASE Interactive
        <4>1. attempt' = [attempt EXCEPT ![Phases[phase]] = art] /\ next' = Len(chosen) + 1 /\ UNCHANGED <<told, pc>>
          BY <1>4, <3>1, <3>2, FoundAttempt
        <4>2. \A s \in Source : attempt'[s] = IF s = Phases[phase] THEN art ELSE attempt[s]
          BY <1>0, <4>1 DEF TypeOK
        <4>3. art # NoArt
          BY CoverArtAssumption
        <4>4. phase = 1 => attempt'["discogs"] = NoArt
          <5>1. phase = 1 => Phases[phase] = "caa" /\ attempt["discogs"] = NoArt
            BY <1>0, <2>1, <3>2, PhasesType DEF DeniedInv
          <5> QED
            BY <4>2, <5>1 DEF Source
        <4>5. ASSUME NEW p \in 1..(phase - 1) PROVE attempt'[Phases[p]] # NoArt \/ denied'[Phases[p]] = ToSet(chosen)
          <5>1. attempt[Phases[p]] # NoArt \/ AllDenied(Phases[p])
            BY <1>0, <2>1, <3>2 DEF DeniedInv
          <5> QED
            BY <2>2, <3>1, <4>2, <4>3, <5>1 DEF AllDenied
        <4>6. next' > Len(chosen) /\ attempt'[Phases[phase]] # NoArt
          BY <2>2, <4>1, <4>2, <4>3
        <4>7. \A s \in Source : denied'[s] \subseteq ToSet(chosen)
          BY <1>0, <2>1, <3>1 DEF DeniedInv
        <4>8. told' = "none"
          BY <1>0, <2>1, <4>1 DEF DeniedInv
        <4> QED
          BY <2>1, <2>2, <3>2, <4>1, <4>4, <4>5, <4>6, <4>7, <4>8 DEF DeniedInv, AllDenied
      <3>3. CASE ~Interactive
        <4>1. pc' = "returned"
          BY <1>4, <3>1, <3>3, FoundCover
        <4> QED
          BY <1>0, <2>1, <3>1, <4>1 DEF DeniedInv
      <3> QED
        BY <3>2, <3>3
    <2>4. CASE /\ denied' = [denied EXCEPT ![Phases[phase]] = @ \cup {Asked}]
               /\ next' = next + 1 /\ UNCHANGED <<attempt, told, pc>>
      <3>1. /\ \A s \in Source : denied[s] \subseteq denied'[s] /\ denied'[s] \subseteq ToSet(chosen)
            /\ \A s \in Source : AllDenied(s) => denied'[s] = ToSet(chosen)
            /\ chosen[next] \in denied'[Phases[phase]]
        BY <1>4, <2>4, DeniedMore, Zenon DEF Asked
      <3>2. ASSUME \A i \in 1..(next - 1) : i \in DOMAIN chosen => chosen[i] \in denied[Phases[phase]],
                   NEW i \in 1..next, i \in DOMAIN chosen
            PROVE  chosen[i] \in denied'[Phases[phase]]
        <4>1. i = next \/ i \in 1..(next - 1)
          BY <2>2
        <4> QED
          BY <2>2, <3>1, <3>2, <4>1
      <3>3. next' - 1 = next /\ told' = "none"
        BY <1>0, <2>1, <2>2, <2>4 DEF DeniedInv
      <3>4. CASE Interactive
        <4>1. /\ attempt[Phases[phase]] = NoArt =>
                   \A i \in 1..(next - 1) : i \in DOMAIN chosen => chosen[i] \in denied[Phases[phase]]
              /\ attempt[Phases[phase]] # NoArt => next > Len(chosen)
              /\ phase = 1 => attempt["discogs"] = NoArt
              /\ \A p \in 1..(phase - 1) : attempt[Phases[p]] # NoArt \/ AllDenied(Phases[p])
          BY <1>0, <2>1, <3>4 DEF DeniedInv
        <4>2. attempt[Phases[phase]] = NoArt
          BY <2>1, <2>2, <4>1
        <4>3. \A p \in 1..(phase - 1) : attempt[Phases[p]] # NoArt \/ denied'[Phases[p]] = ToSet(chosen)
          BY <2>2, <3>1, <4>1
        <4> QED
          BY <2>1, <2>2, <2>4, <3>1, <3>2, <3>3, <3>4, <4>1, <4>2, <4>3 DEF DeniedInv, AllDenied
      <3>5. CASE ~Interactive
        <4>1. /\ \A i \in 1..(next - 1) : i \in DOMAIN chosen => chosen[i] \in denied[Phases[phase]]
              /\ \A p \in 1..(phase - 1) : AllDenied(Phases[p])
          BY <1>0, <2>1, <3>5 DEF DeniedInv
        <4>2. \A p \in 1..(phase - 1) : denied'[Phases[p]] = ToSet(chosen)
          BY <2>2, <3>1, <4>1
        <4> QED
          BY <2>1, <2>2, <2>4, <3>1, <3>2, <3>3, <3>5, <4>1, <4>2 DEF DeniedInv, AllDenied
      <3> QED
        BY <3>4, <3>5
    <2> QED
      BY <1>4, <2>3, <2>4, FetchCases
  <1>5. CASE EndPhase
    <2>1. /\ pc = "ask" /\ next > Len(chosen) /\ UNCHANGED <<chosen, denied, attempt, told>>
          /\ Phases' = Phases /\ Interactive' = Interactive
      BY <1>2, <1>5 DEF EndPhase
    <2>2. /\ phase \in 1..Len(Phases) /\ Len(Phases) \in 1..3 /\ told = "none"
          /\ \A s \in Source : denied[s] \subseteq ToSet(chosen)
      BY <1>0, <2>1, PhasesType DEF DeniedInv
    <2>3. CASE MorePhases
      <3>1. phase' = phase + 1 /\ next' = 1 /\ pc' = "ask" /\ phase < Len(Phases)
        BY <1>5, <2>1, <2>3 DEF EndPhase, MorePhases
      <3>2. phase' \in 1..Len(Phases) /\ phase' # 1 /\ phase' - 1 = phase /\ 1..(next' - 1) = {}
        BY <2>2, <3>1
      <3>3. Interactive => attempt[Phases[phase']] = NoArt
        <4>1. Interactive => Len(Phases) = 2 /\ Phases[2] = "discogs"
          BY <1>0, PhasesType
        <4>2. Interactive => phase = 1
          <5>1. Len(Phases) = 2 /\ phase \in 1..Len(Phases) /\ phase < Len(Phases) => phase = 1
            OBVIOUS
          <5> QED
            BY <2>2, <3>1, <4>1, <5>1
        <4>3. Interactive => attempt["discogs"] = NoArt
          BY <1>0, <2>1, <4>2 DEF DeniedInv
        <4> QED
          BY <3>1, <4>1, <4>2, <4>3
      <3>4. CASE Interactive
        <4>1. \A p \in 1..(phase' - 1) : attempt'[Phases'[p]] # NoArt \/ denied'[Phases'[p]] = ToSet(chosen')
          BY <2>1, <3>2, <3>4, PhaseOver DEF AllDenied
        <4> QED
          BY <2>1, <2>2, <3>1, <3>2, <3>3, <3>4, <4>1 DEF DeniedInv, AllDenied
      <3>5. CASE ~Interactive
        <4>1. \A p \in 1..(phase' - 1) : denied'[Phases'[p]] = ToSet(chosen')
          BY <2>1, <3>2, <3>5, PhaseOver DEF AllDenied
        <4> QED
          BY <2>1, <2>2, <3>1, <3>2, <3>5, <4>1 DEF DeniedInv, AllDenied
      <3> QED
        BY <3>4, <3>5
    <2>4. CASE ~MorePhases /\ Interactive
      <3>1. pc' = "offer" /\ phase' = phase
        BY <1>5, <2>4 DEF EndPhase
      <3>2. phase = 2 /\ Phases[1] = "caa" /\ Phases[2] = "discogs"
        <4>1. Phases = <<"caa", "discogs">> /\ Len(Phases) = 2
          BY <1>0, <2>4, PhasesType
        <4>2. phase = 2 \/ phase = 1
          BY <2>2, <4>1
        <4>3. phase = 1 => MorePhases
          BY <2>4, <4>1 DEF MorePhases
        <4> QED
          BY <2>4, <4>1, <4>2, <4>3
      <3>3. 1 \in 1..phase /\ 2 \in 1..phase
        BY <3>2
      <3>4. \A p \in 1..phase : attempt[Phases[p]] # NoArt \/ AllDenied(Phases[p])
        BY <2>1, <2>4, PhaseOver
      <3>5. \A s \in Source : attempt[s] # NoArt \/ AllDenied(s)
        BY <1>0, <3>2, <3>3, <3>4
      <3>6. \A s \in Source : attempt'[s] # NoArt \/ denied'[s] = ToSet(chosen')
        BY <2>1, <3>5 DEF AllDenied
      <3> QED
        BY <2>1, <2>2, <2>4, <3>1, <3>6 DEF DeniedInv, AllDenied
    <2>5. CASE ~MorePhases /\ ~Interactive
      <3>1. pc' = "returned"
        BY <1>5, <2>5 DEF EndPhase, Return
      <3> QED
        BY <2>1, <2>2, <3>1 DEF DeniedInv
    <2> QED
      BY <2>3, <2>4, <2>5
  <1>6. CASE Offer
    <2>1. pc' = "returned" /\ UNCHANGED <<denied, chosen>> /\ pc # "select"
      BY <1>6 DEF Offer, Return
    <2>2. \A s \in Source : denied[s] \subseteq ToSet(chosen)
      BY <1>0, <2>1 DEF DeniedInv
    <2> QED
      BY <2>1, <2>2 DEF DeniedInv
  <1>7. CASE UpdateFile
    BY <1>7 DEF UpdateFile, DeniedInv
  <1> QED
    BY <1>1, <1>3, <1>4, <1>5, <1>6, <1>7 DEF Next

-----------------------------------------------------------------------------
(* Where the pictures in hand are from. *)

LEMMA FirstMore ==
  ASSUME NEW e, NEW seq, NEW asked, NEW more, asked \subseteq more, FirstAmong(e, seq, asked)
  PROVE  FirstAmong(e, seq, more)
  BY DEF FirstAmong

(* What is found is of the first entry that the source has a picture of. *)
LEMMA FoundIsFirst ==
  ASSUME IInv, Fetch, NEW art, Found(art)
  PROVE  FirstAmong(Asked, chosen, denied[Phases[phase]])
  <1>1. pc = "ask" /\ next <= Len(chosen)
    BY FetchCases
  <1>2. Asked = chosen[next] /\ next \in DOMAIN chosen /\ next \in 1..Len(chosen)
    BY <1>1, AskedType DEF IInv
  <1>3. Len(chosen) \in Nat /\ DOMAIN chosen = 1..Len(chosen)
    BY DEF IInv, TypeOK
  <1>4. \A k \in 1..(next - 1) : k \in DOMAIN chosen => chosen[k] \in denied[Phases[phase]]
    <2>1. CASE Interactive
      <3>1. attempt[Phases[phase]] = NoArt
        <4>1. ~(next > Len(chosen))
          BY <1>1, <1>2, <1>3
        <4> QED
          BY <1>1, <2>1, <4>1 DEF IInv, DeniedInv
      <3> QED
        BY <1>1, <2>1, <3>1 DEF IInv, DeniedInv
    <2>2. CASE ~Interactive
      BY <1>1, <2>2 DEF IInv, DeniedInv
    <2> QED
      BY <2>1, <2>2
  <1>5. \A k \in 1..(next - 1) : k \in DOMAIN chosen
    BY <1>2, <1>3
  <1> QED
    BY <1>2, <1>4, <1>5 DEF FirstAmong

LEMMA AttemptStep == ASSUME IInv, Next PROVE AttemptInv'
  <1>0. TypeOK /\ AttemptInv
    BY DEF IInv
  <1>1. CASE SelectEntries
    <2>1. attempt' = [s \in Source |-> NoArt]
      BY <1>1 DEF SelectEntries
    <2> QED
      BY <2>1 DEF AttemptInv
  <1>2. CASE pc # "select" /\ UNCHANGED <<attempt, chosen, denied>>
    BY <1>0, <1>2 DEF AttemptInv, FirstOf
  <1>3. CASE Begin \/ EndPhase \/ Offer
    <2>1. pc # "select" /\ UNCHANGED <<attempt, chosen, denied>>
      BY <1>3 DEF Begin, EndPhase, Offer
    <2> QED
      BY <1>2, <2>1
  <1>4. CASE Fetch
    <2>1. pc # "select" /\ chosen' = chosen /\ Phases[phase] \in Source
      BY <1>0, <1>4, FetchCases, AskedType DEF IInv
    <2>2. CASE \E art \in Art : art.entry = Asked /\ Found(art) /\ UNCHANGED <<hadError, denied>>
      <3>1. PICK art \in Art : art.entry = Asked /\ Found(art) /\ UNCHANGED denied
        BY <2>2
      <3>2. CASE ~Interactive
        <4>1. attempt' = attempt
          BY <3>1, <3>2 DEF Found
        <4> QED
          BY <1>2, <2>1, <3>1, <4>1
      <3>3. CASE Interactive
        <4>1. \A s \in Source : attempt'[s] = IF s = Phases[phase] THEN art ELSE attempt[s]
          BY <1>0, <1>4, <3>1, <3>3, FoundAttempt DEF TypeOK
        <4>2. FirstAmong(art.entry, chosen, denied[Phases[phase]])
          BY <1>4, <3>1, FoundIsFirst
        <4>3. ASSUME NEW s \in Source, attempt'[s] # NoArt PROVE FirstAmong(attempt'[s].entry, chosen', denied'[s])
          <5>1. CASE s = Phases[phase]
            BY <2>1, <3>1, <4>1, <4>2, <5>1
          <5>2. CASE s # Phases[phase]
            BY <1>0, <2>1, <3>1, <4>1, <4>3, <5>2 DEF AttemptInv, FirstOf
          <5> QED
            BY <5>1, <5>2
        <4> QED
          BY <4>3 DEF AttemptInv, FirstOf
      <3> QED
        BY <3>2, <3>3
    <2>3. CASE denied' = [denied EXCEPT ![Phases[phase]] = @ \cup {Asked}] /\ attempt' = attempt
      <3>1. \A s \in Source : denied[s] \subseteq denied'[s]
        BY <1>4, <2>3, DeniedMore
      <3>2. ASSUME NEW s \in Source, attempt'[s] # NoArt PROVE FirstAmong(attempt'[s].entry, chosen', denied'[s])
        <4>1. FirstAmong(attempt[s].entry, chosen, denied[s])
          BY <1>0, <2>1, <2>3, <3>2 DEF AttemptInv, FirstOf
        <4>2. FirstAmong(attempt[s].entry, chosen, denied'[s])
          BY <3>1, <4>1, FirstMore
        <4> QED
          BY <2>1, <2>3, <4>2
      <3> QED
        BY <3>2 DEF AttemptInv, FirstOf
    <2> QED
      BY <1>4, <2>2, <2>3, FetchCases
  <1>5. CASE UpdateFile
    BY <1>5 DEF UpdateFile, AttemptInv
  <1> QED
    BY <1>1, <1>3, <1>4, <1>5 DEF Next

LEMMA AskStep == ASSUME IInv, Next PROVE AskInv'
  <1>0. TypeOK /\ AskInv /\ SelectionInv /\ DeniedInv
    BY DEF IInv
  <1>1. CASE SelectEntries
    <2>1. pc' = "begin" /\ cover' = [e \in Entries \cup {Merged} |-> IF e = Merged \/ cache = <<>> THEN NoArt ELSE cache[e]]
      BY <1>1 DEF SelectEntries
    <2> QED
      BY <2>1 DEF AskInv, HasCover
  <1>2. ASSUME Begin \/ Fetch \/ EndPhase \/ Offer
        PROVE  options' = options /\ Interactive' = Interactive /\ chosen' = chosen /\ target' = target
    <2>1. options' = options /\ chosen' = chosen /\ target' = target
      BY <1>2, CallSelection
    <2> QED
      BY <2>1, Zenon DEF Interactive
  <1>3. CASE Begin
    <2>1. CASE pc' = "returned"
      BY <2>1 DEF AskInv
    <2>2. CASE pc' # "returned"
      <3>1. /\ pc = "begin" /\ pc' = "ask" /\ UNCHANGED <<cover, denied>>
            /\ HasCover(target) => options.discogs = "always"
        BY <1>3, <2>2 DEF Begin, Return
      <3>2. ~HasCover(Merged) /\ denied["caa"] = {}
        BY <1>0, <3>1 DEF AskInv, DeniedInv, Source
      <3>3. HasCover(target) => Len(chosen) = 1
        BY <1>0, <3>1, <3>2 DEF SelectionInv
      <3> QED
        BY <1>2, <1>3, <3>1, <3>2, <3>3 DEF AskInv, HasCover
    <2> QED
      BY <2>1, <2>2
  <1>4. CASE Fetch
    <2>1. pc = "ask" /\ next <= Len(chosen)
      BY <1>4, FetchCases
    <2>2. CASE \E art \in Art : art.entry = Asked /\ Found(art) /\ UNCHANGED <<hadError, denied>>
      <3>1. PICK art \in Art : art.entry = Asked /\ Found(art) /\ UNCHANGED denied
        BY <2>2
      <3>2. CASE Interactive
        <4>1. UNCHANGED <<cover, denied, pc>>
          BY <1>4, <3>1, <3>2, FoundAttempt
        <4> QED
          BY <1>0, <1>2, <1>4, <2>1, <4>1 DEF AskInv, HasCover
      <3>3. CASE ~Interactive
        <4>1. pc' = "returned"
          BY <1>4, <3>1, <3>3, FoundCover
        <4> QED
          BY <4>1 DEF AskInv
      <3> QED
        BY <3>2, <3>3
    <2>3. CASE /\ denied' = [denied EXCEPT ![Phases[phase]] = @ \cup {Asked}]
               /\ UNCHANGED <<cover, pc>> /\ (Phases[phase] # "caa" \/ ~HasCover(Asked))
      <3>1. HasCover(target) => target = Asked
        <4>1. HasCover(target) => Len(chosen) = 1
          BY <1>0, <2>1 DEF AskInv
        <4>2. Len(chosen) = 1 => target \in Entries
          BY <1>0, <2>1 DEF SelectionInv, TypeOK
        <4> QED
          BY <1>0, <2>1, <4>1, <4>2, AskedType
      <3>2. HasCover(target) => denied'["caa"] = denied["caa"]
        <4>1. HasCover(target) => Phases[phase] # "caa"
          BY <2>3, <3>1
        <4>2. "caa" \in Source
          BY DEF Source
        <4> QED
          BY <1>4, <2>3, <4>1, <4>2, DeniedMore
      <3> QED
        BY <1>0, <1>2, <1>4, <2>1, <2>3, <3>2 DEF AskInv, HasCover
    <2> QED
      BY <1>4, <2>2, <2>3, FetchCases
  <1>5. CASE EndPhase
    <2>1. pc = "ask" /\ pc' \in {"ask", "offer", "returned"} /\ UNCHANGED <<cover, denied>>
      BY <1>5 DEF EndPhase, Return
    <2> QED
      BY <1>0, <1>2, <1>5, <2>1 DEF AskInv, HasCover
  <1>6. CASE Offer
    BY <1>6 DEF Offer, Return, AskInv
  <1>7. CASE UpdateFile
    BY <1>7 DEF UpdateFile, AskInv
  <1> QED
    BY <1>1, <1>3, <1>4, <1>5, <1>6, <1>7 DEF Next

-----------------------------------------------------------------------------
(* What the call returns, and what the files get. *)

(* A picture that nobody chose is from the preferred source, unless that    *)
(* has none.                                                                *)
LEMMA PreferenceStep ==
  ASSUME IInv, Fetch, NEW art \in Art, art.entry = Asked, Found(art), UNCHANGED denied, ~Interactive
  PROVE  PreferenceIsKept'
  <1>1. /\ TypeOK /\ pc = "ask" /\ UNCHANGED <<options, chosen>> /\ told = "none"
        /\ phase \in 1..Len(Phases) /\ \A p \in 1..(phase - 1) : AllDenied(Phases[p])
    BY FetchCases DEF IInv, DeniedInv
  <1>2. told' = "none" \/ told' = Phases[phase]
    BY <1>1, FoundCover
  <1>3. phase # 1 => 1 \in 1..(phase - 1)
    BY <1>1, PhasesType
  <1>4. CASE options.discogs = "always"
    <2>1. Phases[1] = "discogs"
      BY <1>1, <1>4, PhasesType
    <2>2. told' = "caa" => AllDenied("discogs")
      BY <1>1, <1>2, <1>3, <2>1
    <2> QED
      BY <1>1, <1>4, <2>2 DEF PreferenceIsKept, AllDenied
  <1>5. CASE options.discogs = "fallback"
    <2>1. Phases[1] = "caa"
      BY <1>1, <1>5, PhasesType
    <2>2. told' = "discogs" => AllDenied("caa")
      BY <1>1, <1>2, <1>3, <2>1
    <2> QED
      BY <1>1, <1>5, <2>2 DEF PreferenceIsKept, AllDenied
  <1>6. CASE options.discogs = "no"
    <2>1. Phases = <<"caa">>
      BY <1>1, <1>6, PhasesType
    <2>2. told' # "discogs"
      BY <1>1, <1>2, <2>1
    <2> QED
      BY <1>1, <1>6, <2>2 DEF PreferenceIsKept
  <1> QED
    BY <1>1, <1>4, <1>5, <1>6 DEF TypeOK, Options

(* When no phase is left, all sources that may be asked have been.          *)
LEMMA AllAsked ==
  ASSUME IInv, pc = "ask", next > Len(chosen), ~MorePhases, ~Interactive, ~HasCover(target)
  PROVE  \A s \in Source : s = "caa" \/ options.discogs # "no" => AllDenied(s)
  <1>1. TypeOK /\ phase \in 1..Len(Phases) /\ \A p \in 1..phase : AllDenied(Phases[p])
    BY PhaseOver DEF IInv
  <1>2. ~(phase < Len(Phases)) \/ phase = 2
    BY DEF MorePhases
  <1>3. Len(Phases) \in 1..3 /\ 1 \in 1..phase /\ (Len(Phases) # 1 => 2 \in 1..phase)
    <2>1. Len(Phases) \in 1..3
      BY <1>1, PhasesType
    <2>2. ASSUME NEW n \in 1..3, NEW p \in 1..n, ~(p < n) \/ p = 2 PROVE 1 \in 1..p /\ (n # 1 => 2 \in 1..p)
      BY <2>2
    <2> QED
      BY <1>1, <1>2, <2>1, <2>2
  <1>4. CASE options.discogs = "no"
    <2>1. Phases[1] = "caa"
      BY <1>1, <1>4, PhasesType
    <2> QED
      BY <1>1, <1>3, <1>4, <2>1
  <1>5. CASE options.discogs # "no"
    <2>1. Len(Phases) = 3 /\ {Phases[1], Phases[2]} = Source
      BY <1>1, <1>5, PhasesType DEF Source, TypeOK, Options
    <2>2. AllDenied(Phases[1]) /\ AllDenied(Phases[2])
      BY <1>1, <1>3, <2>1
    <2>3. \A s \in Source : s = Phases[1] \/ s = Phases[2]
      BY <2>1
    <2> QED
      BY <2>2, <2>3
  <1> QED
    BY <1>4, <1>5

LEMMA ReturnStep == ASSUME IInv, Next PROVE ReturnInv'
  <1>0. TypeOK /\ SelectionInv /\ DeniedInv /\ AttemptInv /\ AskInv
    BY DEF IInv
  <1>1. CASE SelectEntries \/ UpdateFile
    BY <1>1 DEF SelectEntries, UpdateFile, ReturnInv
  <1>2. ASSUME Begin \/ Fetch \/ EndPhase \/ Offer
        PROVE  options' = options /\ Interactive' = Interactive /\ chosen' = chosen /\ target' = target
    <2>1. options' = options /\ chosen' = chosen /\ target' = target
      BY <1>2, CallSelection
    <2> QED
      BY <2>1, Zenon DEF Interactive
  <1>3. ASSUME pc' = "returned", result' = "true", told' = "none" PROVE ReturnInv'
    BY <1>3 DEF ReturnInv, PreferenceIsKept, FailsOnlyWithNothing
  <1>4. CASE Begin
    <2>1. pc = "begin" /\ told' = told /\ (pc' = "ask" \/ (pc' = "returned" /\ result' = "true"))
      BY <1>4 DEF Begin, Return
    <2>2. told = "none"
      BY <1>0, <2>1 DEF DeniedInv
    <2> QED
      BY <1>3, <2>1, <2>2 DEF ReturnInv
  <1>5. CASE Fetch
    <2>1. pc = "ask" /\ told = "none"
      BY <1>0, <1>5, FetchCases DEF DeniedInv
    <2>2. CASE pc' = pc
      BY <2>1, <2>2 DEF ReturnInv
    <2>3. CASE pc' # pc
      <3>1. PICK art \in Art : art.entry = Asked /\ Found(art) /\ UNCHANGED denied
        BY <1>5, <2>3, FetchCases
      <3>2. ~Interactive
        BY <1>5, <2>3, <3>1, FoundAttempt
      <3>3. pc' = "returned" /\ result' = "true" /\ cover'[target] = art /\ told' \in {"none", Phases[phase]}
        BY <1>5, <2>1, <3>1, <3>2, FoundCover
      <3>4. FirstAmong(art.entry, chosen, denied[Phases[phase]])
        BY <1>5, <3>1, FoundIsFirst
      <3>5. PreferenceIsKept'
        BY <1>5, <3>1, <3>2, PreferenceStep
      <3>6. told' # "none" => FirstAmong(cover'[target'].entry, chosen', denied'[told'])
        BY <1>2, <1>5, <3>1, <3>3, <3>4
      <3> QED
        BY <3>3, <3>5, <3>6 DEF ReturnInv, FirstOf, FailsOnlyWithNothing
    <2> QED
      BY <2>2, <2>3
  <1>6. CASE EndPhase
    <2>1. pc = "ask" /\ next > Len(chosen) /\ UNCHANGED <<told, cover, denied>>
      BY <1>6 DEF EndPhase
    <2>2. told = "none"
      BY <1>0, <2>1 DEF DeniedInv
    <2>3. CASE MorePhases \/ Interactive
      <3>1. pc' # "returned"
        BY <1>6, <2>1, <2>3 DEF EndPhase
      <3> QED
        BY <3>1 DEF ReturnInv
    <2>4. CASE ~MorePhases /\ ~Interactive
      <3>1. pc' = "returned" /\ result' = (IF HasCover(target) THEN "true" ELSE "false")
        BY <1>6, <2>4 DEF EndPhase, Return
      <3>2. CASE HasCover(target)
        BY <1>3, <2>1, <2>2, <3>1, <3>2
      <3>3. CASE ~HasCover(target)
        <4>1. \A s \in Source : s = "caa" \/ options.discogs # "no" => denied[s] = ToSet(chosen)
          BY <2>1, <2>4, <3>3, AllAsked DEF AllDenied
        <4>2. FailsOnlyWithNothing'
          BY <1>2, <1>6, <2>1, <2>4, <3>3, <4>1 DEF FailsOnlyWithNothing, HasCover
        <4>3. PreferenceIsKept'
          BY <2>1, <2>2 DEF PreferenceIsKept
        <4> QED
          BY <2>1, <2>2, <3>1, <3>3, <4>2, <4>3 DEF ReturnInv
      <3> QED
        BY <3>2, <3>3
    <2> QED
      BY <2>3, <2>4
  <1>7. CASE Offer
    <2>1. pc = "offer" /\ UNCHANGED denied /\ Interactive /\ Interactive' = Interactive
      BY <1>0, <1>2, <1>7 DEF Offer, DeniedInv
    <2>2. PreferenceIsKept'
      BY <2>1 DEF PreferenceIsKept
    <2>3. CASE {s \in Source : attempt[s] # NoArt} = {} /\ UNCHANGED <<cover, told>> /\ Return("false")
      <3>1. \A s \in Source : denied[s] = ToSet(chosen)
        BY <1>0, <2>1, <2>3 DEF DeniedInv, AllDenied
      <3>2. denied["caa"] # {}
        <4>1. 1 \in DOMAIN chosen
          BY <1>0, <2>1 DEF SelectionInv, TypeOK
        <4>2. chosen[1] \in ToSet(chosen)
          BY <4>1 DEF ToSet
        <4> QED
          BY <3>1, <4>2 DEF Source
      <3>3. ~HasCover(target)
        BY <1>0, <2>1, <3>2 DEF AskInv
      <3>4. told' = "none"
        BY <1>0, <2>1, <2>3 DEF DeniedInv
      <3>5. FailsOnlyWithNothing'
        BY <1>2, <1>7, <2>1, <2>3, <3>1, <3>3 DEF FailsOnlyWithNothing, HasCover
      <3> QED
        BY <2>2, <2>3, <3>4, <3>5 DEF ReturnInv, Return
    <2>4. CASE \E s \in {q \in Source : attempt[q] # NoArt} :
                 cover' = [cover EXCEPT ![target] = attempt[s]] /\ told' = s /\ Return("true")
      <3>1. PICK s \in Source : /\ attempt[s] # NoArt
                                /\ cover' = [cover EXCEPT ![target] = attempt[s]] /\ told' = s /\ Return("true")
        BY <2>4
      <3>2. cover'[target] = attempt[s]
        BY <1>0, <3>1 DEF TypeOK
      <3>3. FirstAmong(attempt[s].entry, chosen, denied[s])
        BY <1>0, <2>1, <3>1 DEF AttemptInv, FirstOf
      <3>4. FirstAmong(cover'[target'].entry, chosen', denied'[told'])
        BY <1>2, <1>7, <2>1, <3>1, <3>2, <3>3
      <3> QED
        BY <2>2, <3>1, <3>4 DEF ReturnInv, FirstOf, FailsOnlyWithNothing, Return
    <2> QED
      BY <1>7, <2>3, <2>4 DEF Offer
  <1> QED
    BY <1>1, <1>4, <1>5, <1>6, <1>7 DEF Next

(* While a picture is looked for automatically, the album has none, so the  *)
(* one that is found cannot differ from that of another file.               *)
LEMMA AutoCover ==
  ASSUME IInv, Begin \/ Fetch \/ EndPhase \/ Offer, options.auto = "on", options.discogs # "always", cover' # cover
  PROVE  cover[1] = NoArt
  <1>0. TypeOK /\ AskInv /\ DeniedInv /\ ~Interactive
    BY DEF IInv, Interactive
  <1>1. pc # "select"
    BY CallSelection
  <1>2. chosen = <<1>> /\ target = 1 /\ (HasCover(1) <=> HasCover(target))
    <2>1. chosen = <<1>>
      BY <1>1 DEF IInv, SelectionInv
    <2>2. target = 1
      BY <1>1, <2>1 DEF IInv, SelectionInv
    <2> QED
      BY <2>1, <2>2
  <1>3. CASE Begin
    <2>1. ~HasCover(target)
      BY <1>3 DEF Begin
    <2> QED
      BY <1>2, <2>1 DEF HasCover
  <1>4. CASE Fetch
    <2>1. pc = "ask"
      BY <1>4, FetchCases
    <2>2. ~HasCover(target)
      BY <1>0, <2>1 DEF AskInv
    <2> QED
      BY <1>2, <2>2 DEF HasCover
  <1>5. CASE EndPhase
    BY <1>5 DEF EndPhase
  <1>6. CASE Offer
    BY <1>0, <1>6 DEF Offer, DeniedInv
  <1> QED
    BY <1>3, <1>4, <1>5, <1>6

LEMMA AlbumStep == ASSUME IInv, Next PROVE AlbumInv'
  <1>0. TypeOK /\ TypeOK' /\ SelectionInv /\ AlbumInv /\ 1 \in Entries /\ Merged \notin Entries
    BY CoverArtAssumption, TypeStep DEF IInv, Entries, Merged
  <1>1. options' = options
    BY CallSelection DEF Next, SelectEntries, UpdateFile, disc
  <1>2. SUFFICES ASSUME options.auto = "on", options.discogs # "always"
        PROVE  /\ options.command = "update" =>
                    /\ \A f \in 1..F : embedded'[f] # NoArt => cache' # <<>> /\ cache'[1] = embedded'[f]
                    /\ pc' # "select" => cache' # <<>> /\ (cache'[1] # NoArt => cover'[1] = cache'[1])
               /\ options.command = "rip" => \A f \in 1..F : embedded'[f] # NoArt => f = 1
    BY <1>1 DEF AlbumInv
  <1>3. /\ options.command = "update" =>
             /\ \A f \in 1..F : embedded[f] # NoArt => cache # <<>> /\ cache[1] = embedded[f]
             /\ pc # "select" => cache # <<>> /\ (cache[1] # NoArt => cover[1] = cache[1])
        /\ options.command = "rip" => \A f \in 1..F : embedded[f] # NoArt => f = 1
    BY <1>0, <1>2 DEF AlbumInv
  <1>4. CASE SelectEntries
    <2>1. /\ embedded' = embedded
          /\ cover' = [e \in Entries \cup {Merged} |-> IF e = Merged \/ cache = <<>> THEN NoArt ELSE cache[e]]
          /\ cache' = IF options.command = "update" /\ cache = <<>> THEN [e \in Entries |-> NoArt] ELSE cache
      BY <1>4 DEF SelectEntries
    <2>2. 1 # Merged
      BY DEF Merged
    <2>3. cover'[1] = IF cache = <<>> THEN NoArt ELSE cache[1]
      BY <1>0, <2>1, <2>2
    <2>4. CASE cache = <<>> /\ options.command = "update"
      <3>1. cache'[1] = NoArt /\ 1 \in DOMAIN cache'
        BY <1>0, <2>1, <2>4
      <3>2. cache' # <<>>
        BY <3>1
      <3> QED
        BY <1>3, <2>1, <2>4, <3>1, <3>2
    <2>5. CASE ~(cache = <<>> /\ options.command = "update")
      BY <1>3, <2>1, <2>3, <2>5
    <2> QED
      BY <2>4, <2>5
  <1>5. CASE Begin \/ Fetch \/ EndPhase \/ Offer
    <2>1. UNCHANGED <<cache, embedded>> /\ pc # "select"
      BY <1>5, CallSelection
    <2>2. cover' # cover => cover[1] = NoArt
      BY <1>2, <1>5, AutoCover
    <2> QED
      BY <1>3, <2>1, <2>2
  <1>6. CASE UpdateFile
    <2>1. /\ pc = "returned" /\ pc' = "select" /\ files' = files + 1
          /\ cache' = IF options.command = "update" /\ result = "true" THEN [e \in Entries |-> cover[e]] ELSE cache
      BY <1>6 DEF UpdateFile
    <2>2. \A f \in 1..F : embedded'[f] # embedded[f] => f = files + 1 /\ embedded'[f] = cover[target]
      BY <1>0, <1>6, <2>1 DEF UpdateFile, TypeOK
    <2>3. target = 1 /\ result \in {"true", "false"} /\ (result = "false" => cover[target] = NoArt)
      <3>1. chosen = <<1>> /\ ReturnInv
        BY <1>0, <1>2, <2>1 DEF SelectionInv, IInv
      <3>2. target = 1
        BY <1>0, <2>1, <3>1 DEF SelectionInv
      <3> QED
        BY <1>0, <2>1, <3>1, <3>2 DEF ReturnInv, FailsOnlyWithNothing, HasCover, TypeOK
    <2>4. CASE options.command = "rip"
      <3>1. files = 0
        BY <1>0, <2>1, <2>4 DEF SelectionInv, TypeOK
      <3>2. ASSUME NEW f \in 1..F, embedded'[f] # NoArt PROVE f = 1
        BY <1>3, <2>2, <2>4, <3>1, <3>2
      <3> QED
        BY <2>4, <3>2
    <2>5. CASE options.command = "update" /\ result = "true"
      <3>1. cache'[1] = cover[1] /\ 1 \in DOMAIN cache'
        BY <1>0, <2>1, <2>5
      <3>2. cache' # <<>>
        BY <3>1
      <3>3. ASSUME NEW f \in 1..F, embedded'[f] # NoArt PROVE cache'[1] = embedded'[f]
        <4>1. CASE embedded'[f] # embedded[f]
          BY <2>2, <2>3, <3>1, <4>1
        <4>2. CASE embedded'[f] = embedded[f]
          <5>1. cache[1] = embedded[f] /\ cover[1] = cache[1]
            BY <1>3, <2>1, <2>5, <3>3, <4>2
          <5> QED
            BY <3>1, <4>2, <5>1
        <4> QED
          BY <4>1, <4>2
      <3> QED
        BY <2>1, <2>5, <3>2, <3>3
    <2>6. CASE options.command = "update" /\ result = "false"
      <3>1. cache' = cache
        BY <2>1, <2>6
      <3>2. \A f \in 1..F : embedded'[f] # NoArt => embedded'[f] = embedded[f]
        BY <2>2, <2>3, <2>6
      <3> QED
        BY <1>3, <2>1, <2>6, <3>1, <3>2
    <2> QED
      BY <1>0, <2>3, <2>4, <2>5, <2>6 DEF TypeOK, Options
  <1> QED
    BY <1>4, <1>5, <1>6 DEF Next

-----------------------------------------------------------------------------
(* The invariant and what follows from it. *)

LEMMA InitInv == Init => IInv
  <1> SUFFICES ASSUME Init PROVE IInv
    OBVIOUS
  <1>1. /\ pc = "select" /\ cache = <<>> /\ cover = [e \in Entries \cup {Merged} |-> NoArt]
        /\ embedded = [f \in 1..F |-> NoArt]
    BY DEF Init
  <1>2. OwnInv /\ AlbumInv
    BY <1>1 DEF OwnInv, AlbumInv
  <1> QED
    BY <1>1, <1>2, InitType DEF IInv, SelectionInv, DeniedInv, AttemptInv, AskInv, ReturnInv

LEMMA NextInv == IInv /\ [Next]_vars => IInv'
  <1> SUFFICES ASSUME IInv, [Next]_vars PROVE IInv'
    OBVIOUS
  <1>1. CASE Next
    BY <1>1, TypeStep, SelectionStep, OwnStep, DeniedStep, AttemptStep, AskStep, ReturnStep, AlbumStep, Zenon DEF IInv
  <1>2. CASE UNCHANGED vars
    <2>1. /\ UNCHANGED <<options, offers, cache, files, embedded, pc, chosen, target, cover, phase, next, hadError>>
          /\ UNCHANGED <<attempt, told, result, denied>>
      BY <1>2 DEF vars, disc, store, call
    <2>2. Interactive' = Interactive
      BY <2>1, Zenon DEF Interactive
    <2>3. Phases' = Phases
      BY <2>1, <2>2 DEF Phases
    <2>4. TypeOK' /\ SelectionInv' /\ OwnInv'
      BY <2>1 DEF IInv, TypeOK, SelectionInv, OwnInv
    <2>5. DeniedInv'
      BY <2>1, <2>2, <2>3 DEF IInv, DeniedInv, AllDenied
    <2>6. AttemptInv' /\ AskInv'
      BY <2>1, <2>2 DEF IInv, AttemptInv, AskInv, FirstOf, HasCover
    <2>7. ReturnInv'
      BY <2>1, <2>2 DEF IInv, ReturnInv, FirstOf, PreferenceIsKept, FailsOnlyWithNothing, HasCover
    <2>8. AlbumInv'
      BY <2>1 DEF IInv, AlbumInv
    <2> QED
      BY <2>4, <2>5, <2>6, <2>7, <2>8 DEF IInv
  <1> QED
    BY <1>1, <1>2

THEOREM Invariance == Spec => []IInv
  BY InitInv, NextInv, PTL DEF Spec

(* The variables keep their types, for any number of entries and files. *)
THEOREM TypeCorrect == Spec => []TypeOK
  <1>1. IInv => TypeOK
    BY DEF IInv
  <1> QED
    BY <1>1, Invariance, PTL

(* Nobody gets a picture of the source that -dc puts second while the first *)
(* has one.                                                                 *)
THEOREM PreferenceCorrect == Spec => []PreferenceIsKept
  <1>1. IInv => PreferenceIsKept
    BY DEF IInv, ReturnInv, PreferenceIsKept
  <1> QED
    BY <1>1, Invariance, PTL

(* Of the entries chosen the first one that has a picture gives it. *)
THEOREM EarlierCorrect == Spec => []EarlierEntryWins
  <1>1. IInv => EarlierEntryWins
    <2> SUFFICES ASSUME IInv, pc = "returned", told # "none", cover[target].source = told,
                        NEW i \in DOMAIN chosen, NEW j \in DOMAIN chosen, i < j, chosen[j] = cover[target].entry
                 PROVE  chosen[i] \in denied[told]
      BY DEF EarlierEntryWins
    <2>1. PICK k \in DOMAIN chosen :
            cover[target].entry = chosen[k] /\ \A m \in 1..(k - 1) : chosen[m] \in denied[told]
      BY DEF IInv, ReturnInv, FirstOf, FirstAmong
    <2>2. k = j
      BY <2>1 DEF IInv, SelectionInv, IsInjective
    <2>3. DOMAIN chosen = 1..Len(chosen) /\ Len(chosen) \in Nat
      BY DEF IInv, TypeOK
    <2>4. i \in 1..(j - 1)
      BY <2>3
    <2> QED
      BY <2>1, <2>2, <2>4
  <1> QED
    BY <1>1, Invariance, PTL

(* A call that fails has asked for everything and left the album bare. *)
THEOREM FailsCorrect == Spec => []FailsOnlyWithNothing
  <1>1. IInv => FailsOnlyWithNothing
    BY DEF IInv, ReturnInv, FailsOnlyWithNothing
  <1> QED
    BY <1>1, Invariance, PTL

(* With -a, and -dc other than always, the files of an album get one picture, *)
(* however many they are and whatever failed.                                *)
THEOREM OnePictureCorrect == Spec => []OnePicturePerAlbum
  <1>1. IInv => OnePicturePerAlbum
    <2> SUFFICES ASSUME IInv, options.auto = "on", options.discogs # "always",
                        NEW f \in 1..F, NEW g \in 1..F, embedded[f] # NoArt, embedded[g] # NoArt
                 PROVE  embedded[f] = embedded[g]
      BY DEF OnePicturePerAlbum
    <2>1. options.command = "rip" \/ options.command = "update"
      BY DEF IInv, TypeOK, Options
    <2>2. CASE options.command = "rip"
      BY <2>2 DEF IInv, AlbumInv
    <2>3. CASE options.command = "update"
      <3>1. cache[1] = embedded[f] /\ cache[1] = embedded[g]
        BY <2>3 DEF IInv, AlbumInv
      <3> QED
        BY <3>1
    <2> QED
      BY <2>1, <2>2, <2>3
  <1> QED
    BY <1>1, Invariance, PTL

(* No step of a call leaves an album without the picture it had. *)
THEOREM NeverLostCorrect == Spec => PictureIsNeverLost
  <1>1. ASSUME IInv, [Next]_vars, pc # "select", HasCover(target) PROVE cover'[target] # NoArt
    <2>0. TypeOK /\ NoArt \notin Art /\ cover[target] # NoArt
      BY <1>1, CoverArtAssumption DEF IInv, HasCover
    <2>1. CASE cover' = cover
      BY <2>0, <2>1
    <2>2. CASE Fetch /\ cover' # cover
      <3>1. PICK art \in Art : art.entry = Asked /\ Found(art) /\ ~Interactive
        BY <1>1, <2>2, FetchCases, FoundAttempt
      <3>2. cover'[target] = art
        BY <1>1, <2>2, <3>1, FoundCover
      <3> QED
        BY <2>0, <3>1, <3>2
    <2>3. CASE Offer /\ cover' # cover
      <3>1. PICK s \in Source : attempt[s] # NoArt /\ cover' = [cover EXCEPT ![target] = attempt[s]]
        BY <2>3 DEF Offer
      <3> QED
        BY <2>0, <3>1 DEF TypeOK
    <2>4. CASE SelectEntries
      BY <1>1, <2>4 DEF SelectEntries
    <2>5. CASE Begin
      BY <1>1, <2>1, <2>5 DEF Begin
    <2>6. EndPhase \/ UpdateFile \/ UNCHANGED vars => cover' = cover
      BY DEF EndPhase, UpdateFile, vars, call
    <2> QED
      BY <1>1, <2>1, <2>2, <2>3, <2>4, <2>5, <2>6 DEF Next
  <1>2. IInv /\ [Next]_vars => [pc # "select" /\ HasCover(target) => cover'[target] # NoArt]_vars
    BY <1>1
  <1> QED
    BY <1>2, Invariance, PTL DEF Spec, PictureIsNeverLost

-----------------------------------------------------------------------------
(* How far a call has come, and that no source is asked for ever.          *)

PlaceRank(place) ==
  CASE place = "select" -> 0 [] place = "begin" -> 1 [] place = "ask" -> 2 [] place = "offer" -> 3
    [] place = "returned" -> 4

(* A step ends a file, or brings the call further: to another place, to the next phase, or *)
(* to an entry further on.                                                                 *)
ComesNearer ==
  \/ files' = files + 1
  \/ files' = files /\ PlaceRank(pc') > PlaceRank(pc)
  \/ files' = files /\ pc' = pc /\ phase' > phase
  \/ files' = files /\ pc' = pc /\ phase' = phase /\ next' > next

(* Each of these numbers has a bound, however many entries were chosen: a call asks every  *)
(* source for every entry once in a phase, has three phases at most, and then returns.     *)
THEOREM CallRunsOut ==
  Spec => /\ [](files \in 0..F /\ PlaceRank(pc) \in 0..4 /\ phase \in 0..3 /\ next \in 1..(E + 1))
          /\ [][ComesNearer]_vars
  <1>1. IInv => files \in 0..F /\ PlaceRank(pc) \in 0..4 /\ phase \in 0..3 /\ next \in 1..(E + 1)
    BY DEF IInv, TypeOK, PlaceRank
  <1>2. ASSUME IInv, Next PROVE ComesNearer
    <2>1. next \in Nat /\ phase \in Nat /\ E \in Nat /\ Len(chosen) \in Nat
      BY <1>2, CoverArtAssumption DEF IInv, TypeOK
    <2>2. CASE SelectEntries
      BY <2>2 DEF SelectEntries, ComesNearer, PlaceRank
    <2>3. CASE Begin
      BY <2>3 DEF Begin, Return, ComesNearer, PlaceRank, store
    <2>4. CASE Fetch
      <3>1. files' = files /\ phase' = phase /\ pc = "ask" /\ next <= Len(chosen)
        BY <1>2, <2>4, FetchCases
      <3>2. pc' = "returned" \/ (pc' = pc /\ next' > next)
        <4>1. ASSUME NEW art \in Art, Found(art) PROVE pc' = "returned" \/ (pc' = pc /\ next' > next)
          <5>1. CASE Interactive
            <6>1. next' = Len(chosen) + 1 /\ pc' = pc
              BY <4>1, <5>1 DEF Found
            <6>2. \A m, n \in Nat : m <= n => n + 1 > m
              OBVIOUS
            <6> QED
              BY <2>1, <3>1, <6>1, <6>2
          <5>2. CASE ~Interactive
            BY <4>1, <5>2 DEF Found, Return
          <5> QED
            BY <5>1, <5>2
        <4>2. CASE next' = next + 1 /\ pc' = pc
          BY <2>1, <4>2
        <4> QED
          BY <1>2, <2>4, <4>1, <4>2, FetchCases
      <3> QED
        BY <3>1, <3>2 DEF ComesNearer, PlaceRank
    <2>5. CASE EndPhase
      <3>1. files' = files /\ pc = "ask"
        BY <2>5 DEF EndPhase, store
      <3>2. pc' \in {"offer", "returned"} \/ (pc' = pc /\ phase' > phase)
        <4>1. CASE MorePhases
          <5>1. phase' = phase + 1 /\ pc' = pc
            BY <2>5, <4>1 DEF EndPhase
          <5> QED
            BY <2>1, <5>1
        <4>2. CASE ~MorePhases
          BY <2>5, <4>2 DEF EndPhase, Return
        <4> QED
          BY <4>1, <4>2
      <3> QED
        BY <3>1, <3>2 DEF ComesNearer, PlaceRank
    <2>6. CASE Offer
      BY <2>6 DEF Offer, Return, ComesNearer, PlaceRank, store
    <2>7. CASE UpdateFile
      BY <2>7 DEF UpdateFile, ComesNearer
    <2> QED
      BY <1>2, <2>2, <2>3, <2>4, <2>5, <2>6, <2>7 DEF Next
  <1>3. IInv /\ [Next]_vars => [ComesNearer]_vars
    BY <1>2
  <1> QED
    BY <1>1, <1>3, Invariance, PTL DEF Spec

=============================================================================
