----------------------------- MODULE SchemaName -----------------------------
(***************************************************************************)
(* The name of a tenant's schema: TenantsService.buildSchemaName, and the  *)
(* pattern of assertSafeSchemaName that every use of a name is held to.    *)
(*                                                                         *)
(* The workshop's name is read from left to right, one character a step,   *)
(* as the global regular expression does, and may end after any of them.   *)
(* Of a character only its class matters.                                  *)
(***************************************************************************)
EXTENDS Selection

CONSTANTS
  Prefix, Default, Suffix,   \* "tenant_", "workshop", "_" and eight hex digits
  SlugMax, NameMax,          \* 40; the 63 of the pattern
  MaxRead                    \* the longest workshop name (a bound)

SafeChar == {"letter", "digit", "underscore"}    \* a-z, 0-9, _

(* "upper" is lowered into a-z; "dotted" (U+0130) into "i" and a mark that *)
(* is neither letter nor digit; "other" is everything else but "_".        *)
Char == SafeChar \cup {"upper", "dotted", "other"}

ASSUME SchemaNameAssumption ==
  /\ {Prefix, Default, Suffix} \subseteq Seq(SafeChar)
  /\ {SlugMax, NameMax, MaxRead} \subseteq Nat
  /\ Len(Prefix) + Len(Suffix) >= 3 /\ Len(Prefix) >= 1 /\ Prefix[1] = "letter"
  /\ Len(Prefix) + SlugMax + Len(Suffix) <= NameMax
  /\ Len(Prefix) + Len(Default) + Len(Suffix) <= NameMax

VARIABLES name, text    \* the name read; what toLowerCase and replace made of it

vars == <<name, text>>

(* toLowerCase *)
Lower(c) == CASE c = "upper" -> <<"letter">>
              [] c = "dotted" -> <<"letter", "other">>
              [] OTHER -> <<c>>

(* mutant: not the run, but each of its characters becomes a "_" *)
MutReplace(t, c) == Append(t, IF c \in {"letter", "digit"} THEN c ELSE "underscore")

(* replace(/[^a-z0-9]+/g, '_'), at the next character c *)
Replace(t, c) ==
  IF c \in {"letter", "digit"} THEN Append(t, c)
  ELSE IF t # <<>> /\ t[Len(t)] = "underscore" THEN t ELSE Append(t, "underscore")

LowerReplace(t, c) ==
  IF Len(Lower(c)) = 1 THEN Replace(t, Lower(c)[1])
  ELSE Replace(Replace(t, Lower(c)[1]), Lower(c)[2])

Init == name = <<>> /\ text = <<>>

Read(c) == /\ Len(name) < MaxRead
           /\ name' = Append(name, c)
           /\ text' = LowerReplace(text, c)

Next == \E c \in Char : Read(c)

Spec == Init /\ [][Next]_vars
-----------------------------------------------------------------------------
(* replace(/^_+|_+$/g, ''): Replace has left no two "_" in a row *)
Trim(t) ==
  LET first == IF t # <<>> /\ t[1] = "underscore" THEN 2 ELSE 1
      last == IF t # <<>> /\ t[Len(t)] = "underscore" THEN Len(t) - 1 ELSE Len(t)
  IN  SubSeq(t, first, last)

(* mutant: the slug is not cut *)
MutCut(t) == t

(* slice(0, 40) *)
Cut(t) == SubSeq(t, 1, IF Len(t) < SlugMax THEN Len(t) ELSE SlugMax)

Slug == Cut(Trim(text))

BuildSchemaName == Prefix \o (IF Slug = <<>> THEN Default ELSE Slug) \o Suffix

(* /^[a-z][a-z0-9_]{2,62}$/ *)
Safe(n) == /\ Len(n) \in 3..NameMax
           /\ n[1] = "letter"
           /\ \A i \in DOMAIN n : n[i] \in SafeChar
-----------------------------------------------------------------------------
(* The comment at tenants.service.ts:25-29 and schema-name.util.ts:2: every *)
(* name that is generated passes the check it is used under, whatever the  *)
(* workshop is called.  A name that did not could never be provisioned.    *)
GeneratedIsSafe == Safe(BuildSchemaName)

AlnumOf(s) == Among(s, {"letter", "digit"})
Lowered(s) == [i \in DOMAIN s |-> IF s[i] \in {"upper", "dotted"} THEN "letter" ELSE s[i]]

(* The slug says what the name says: its letters and digits are those of   *)
(* the name, in lower case and in their order, up to the cut; and no "_"   *)
(* begins it, repeats or, where nothing is cut, ends it.                   *)
SlugIsReadable ==
  /\ LET a == AlnumOf(Slug) IN a = SubSeq(AlnumOf(Lowered(name)), 1, Len(a))
  /\ Len(Slug) < SlugMax => /\ AlnumOf(Slug) = AlnumOf(Lowered(name))
                            /\ Slug # <<>> => Slug[Len(Slug)] # "underscore"
  /\ Slug # <<>> => Slug[1] # "underscore"
  /\ \A i \in 1..(Len(Slug) - 1) : Slug[i] # "underscore" \/ Slug[i + 1] # "underscore"
=============================================================================
