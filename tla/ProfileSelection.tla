-------------------------- MODULE ProfileSelection --------------------------
(***************************************************************************)
(* AutoProfileDetector::detect (src/profile.rs:54-75 and 162-243): the     *)
(* profiles are considered one by one, the candidates sorted, the fallback *)
(* added; then a user may force another profile (profile.rs:107-160).      *)
(*                                                                         *)
(* A rule is a record of options, each a set of at most one value; a       *)
(* profile is [id, rules], its id a number in the order of the ids.  The   *)
(* family is left out: detection never reads it.                           *)
(***************************************************************************)
EXTENDS Integers, Sequences, FiniteSets

CONSTANTS
  Profiles,   \* the catalog, a sequence
  SdlId,      \* sdl_joystick
  Devices,    \* records [vendor_id, product_id, transport]
  ForcedIds   \* what a user may force

VARIABLES
  device,
  next,       \* the profile considered next
  candidates,
  selection,  \* the result [selected, candidates], at most one
  forced      \* the explicit choices in force, at most one

detector == <<device, next, candidates, selection, forced>>

Clues == {"vendor_id", "product_id", "transport"}
Matches(rule) == \A clue \in Clues : rule[clue] \subseteq {device[clue]}
Specificity(rule) ==
  (IF rule.vendor_id # {} THEN 1 ELSE 0) + (IF rule.product_id # {} THEN 1 ELSE 0)
    + (IF rule.transport # {} THEN 1 ELSE 0)

Level == [Fallback |-> 0, Tentative |-> 1, Strong |-> 2, Verified |-> 3]
ConfidenceOf(rule) == IF Specificity(rule) \in {2, 3} THEN "Strong" ELSE "Tentative"
EvidenceOf(rule) ==
  {"IdentityMatch" : x \in rule.vendor_id \cup rule.product_id}
    \cup {"TransportMatch" : x \in rule.transport}

Candidate(profile, rule) ==
  [profile |-> profile, id |-> Profiles[profile].id,
   confidence |-> ConfidenceOf(rule), evidence |-> EvidenceOf(rule)]
Fallback == [profile |-> 0, id |-> SdlId, confidence |-> "Fallback",
             evidence |-> {"GenericFallback"}]

DetectInit ==
  /\ device \in Devices
  /\ next = 1
  /\ candidates = <<>>
  /\ selection = {}
  /\ forced = {}

\* The rules of a profile that match the device.
Hits(profile) ==
  LET rules == Profiles[profile].rules IN {i \in DOMAIN rules : Matches(rules[i])}
SpecificityAt(profile, i) == Specificity(Profiles[profile].rules[i])

\* max_by_key keeps the last of equally specific rules.
BestHit(profile, i) ==
  /\ i \in Hits(profile)
  /\ \A j \in Hits(profile) :
       \/ SpecificityAt(profile, j) < SpecificityAt(profile, i)
       \/ SpecificityAt(profile, j) = SpecificityAt(profile, i) /\ j <= i

Offer ==
  /\ next <= Len(Profiles)
  /\ \E i \in Hits(next) :
       /\ BestHit(next, i) /\ SpecificityAt(next, i) # 0
       /\ candidates' = Append(candidates, Candidate(next, Profiles[next].rules[i]))
  /\ next' = next + 1
  /\ UNCHANGED <<device, selection, forced>>

\* No rule matches, or only rules that ask for nothing.
PassOver ==
  /\ next <= Len(Profiles)
  /\ \A i \in Hits(next) : SpecificityAt(next, i) = 0
  /\ next' = next + 1
  /\ UNCHANGED <<device, candidates, selection, forced>>

\* sort_by is stable: equal candidates keep the order of the catalog.
Precedes(i, j) ==
  LET c == candidates[i]
      d == candidates[j]
  IN \/ Level[c.confidence] > Level[d.confidence]
     \/ /\ c.confidence = d.confidence
        /\ c.id < d.id \/ (c.id = d.id /\ i < j)

Orders ==
  {f \in [1..Len(candidates) -> 1..Len(candidates)] :
     /\ \A i \in 1..Len(candidates) : \E j \in 1..Len(candidates) : f[j] = i
     /\ \A i, j \in 1..Len(candidates) : i < j => Precedes(f[i], f[j])}

Select ==
  /\ next > Len(Profiles) /\ selection = {}
  /\ \E f \in Orders :
       LET sorted == Append([i \in 1..Len(candidates) |-> candidates[f[i]]], Fallback)
       IN selection' = {[selected |-> sorted[1], candidates |-> sorted]}
  /\ UNCHANGED <<device, next, candidates, forced>>

\* ProfileSelection::force, and the way back to Auto; the automatic result stays.
ForceProfile(id) ==
  /\ selection # {}
  /\ forced' = {id}
  /\ UNCHANGED <<device, next, candidates, selection>>

Clear ==
  /\ forced' = {}
  /\ UNCHANGED <<device, next, candidates, selection>>

DetectNext == Offer \/ PassOver \/ Select \/ Clear \/ \E id \in ForcedIds : ForceProfile(id)

DetectSpec == DetectInit /\ [][DetectNext]_detector

-----------------------------------------------------------------------------
(* Properties.                                                             *)

\* A profile with a rule that asks for something and gets it.
Evident(profile) ==
  \E i \in DOMAIN Profiles[profile].rules :
    Matches(Profiles[profile].rules[i]) /\ SpecificityAt(profile, i) # 0

Offered(result) == {result.candidates[i] : i \in DOMAIN result.candidates}

\* "every selection retains the SDL fallback, no automatic profile is selected
\* without explicit evidence" (docs/IMPLEMENTATION_PLAN.md:36-37): the fallback is offered
\* last, exactly the profiles with evident rules are offered before it, none as
\* Verified, and what is selected is offered and as confident as any other.
SelectionRetains ==
  \A result \in selection :
    /\ result.candidates # <<>>
    /\ result.candidates[Len(result.candidates)] = Fallback
    /\ \A p \in 1..Len(Profiles) :
         Evident(p) <=> \E c \in Offered(result) : c.profile = p
    /\ \A c \in Offered(result) : c = Fallback \/ c.confidence \in {"Tentative", "Strong"}
    /\ result.selected \in Offered(result)
    /\ \A c \in Offered(result) : Level[c.confidence] <= Level[result.selected.confidence]

\* "Select the most specific passive profile" (profile.rs:186): the profile selected
\* has as specific a matching rule as any other.  The code does not do this: rules
\* of two and of three clues are both Strong (profile.rs:207), and the ids decide.
MostSpecificSelected ==
  \A result \in selection :
    result.selected # Fallback =>
      \A p \in 1..Len(Profiles) : \A i \in Hits(p) :
        \E j \in Hits(result.selected.profile) :
          SpecificityAt(result.selected.profile, j) >= SpecificityAt(p, i)
=============================================================================
