------------------------------ MODULE PackTools ------------------------------
(****************************************************************************)
(* The two tools of the language packs (src/webui/tools): the parity check  *)
(* of the build, check_i18n.js, and patch_compliance_i18n.js, which writes  *)
(* i18n.js anew with the texts of three keys of its own.                    *)
(*                                                                          *)
(* A file is the packs that are listed in LOCALES and what the packs hold:  *)
(* for each key a text, told by where it came from.                         *)
(****************************************************************************)
EXTENDS Naturals, FiniteSets

CONSTANTS Codes,     \* languages of the packs; the English one is among them
          Keys,      \* keys of the packs
          ToolKeys,  \* the keys the patch tool writes
          PackCount  \* packs it expects, 23 in the code

EnglishPack == CHOOSE c \in Codes : TRUE

ASSUME CodesAssumption == Codes # {} /\ PackCount \in Nat /\ ToolKeys \subseteq Keys

VARIABLES listed,    \* LOCALES
          packs,     \* I18N
          ran        \* what the last tool said, and the file before it

packVars == <<listed, packs, ran>>

File == [listed |-> listed, packs |-> packs]

----------------------------------------------------------------------------
(* check_i18n.js: every listed pack has the keys of the English one. *)

Parity(f) ==
  \A c \in f.listed :
    c \in DOMAIN f.packs /\ DOMAIN f.packs[c] = DOMAIN f.packs[EnglishPack]

Check == /\ ran' = [tool |-> "check", ok |-> Parity(File), before |-> File]
         /\ UNCHANGED <<listed, packs>>

----------------------------------------------------------------------------
(* patch_compliance_i18n.js *)

\* A pack with the tool's texts in place of what it had for their keys.
Patched_keepsold(p) ==
  [k \in DOMAIN p \cup ToolKeys |-> IF k \in DOMAIN p THEN p[k] ELSE "tool"]
Patched(p) ==
  [k \in DOMAIN p \cup ToolKeys |-> IF k \in ToolKeys THEN "tool" ELSE p[k]]

\* Only the listed packs are written.  A pack that is listed and missing, or
\* another number of packs, stops the tool before it writes.
Patch ==
  LET good == listed \subseteq DOMAIN packs /\ Cardinality(listed) = PackCount
  IN /\ packs' = IF good THEN [c \in listed |-> Patched(packs[c])] ELSE packs
     /\ ran' = [tool |-> "patch", ok |-> good, before |-> File]
     /\ UNCHANGED listed

----------------------------------------------------------------------------
\* The files people write: some pack may be missing, not listed, short of a
\* key or hold one too many.
PackInit ==
  /\ listed \in {l \in SUBSET Codes : EnglishPack \in l}
  /\ \E there \in {t \in SUBSET Codes : EnglishPack \in t} :
       packs \in [there -> {[k \in ks |-> "hand"] : ks \in SUBSET Keys}]
  /\ ran = [tool |-> "none", ok |-> TRUE, before |-> File]

PackNext == Check \/ Patch

----------------------------------------------------------------------------
\* A patch that ends well keeps what the build has checked and what people
\* wrote: packs in parity stay in parity, the texts of other keys stay, the
\* tool's keys hold its texts in every listed pack, and patching once more
\* changes nothing ("This script is idempotent: it rewrites only the three
\* keys", patch_compliance_i18n.js:7).  Packs that LOCALES does not list are
\* dropped, whatever that sentence says.
PatchSafe ==
  ran.tool = "patch" /\ ran.ok =>
    LET old == ran.before.packs
    IN /\ Parity(ran.before) => Parity(File)
       /\ \A c \in listed :
            /\ \A k \in ToolKeys : k \in DOMAIN packs[c] /\ packs[c][k] = "tool"
            /\ \A k \in Keys \ ToolKeys :
                 /\ k \in DOMAIN old[c] <=> k \in DOMAIN packs[c]
                 /\ k \in DOMAIN old[c] => packs[c][k] = old[c][k]
            /\ Patched(packs[c]) = packs[c]
=============================================================================
