------------------------- MODULE ResourceVariables -------------------------
(* The application's resources that a theme overrides, on one UI thread     *)
(* (resource_variables.cpp).  A key either has a value of the application   *)
(* (App), an override of some theme or no entry at all (Absent).            *)
(* Dark and light dictionaries live in a dictionary of their own that is    *)
(* appended and removed as a whole: of them only `dictionary` is kept.      *)
(*                                                                          *)
(* Merging runs in one step here: XAML is not re-entered by the parsing of  *)
(* a resource, and restoring an original does not throw (README).           *)
EXTENDS Naturals, Sequences

CONSTANTS
  Keys,        \* resource keys
  Existing,    \* those the application defines
  Entries      \* Entries[t]: theme t's entries, <<key, kind>> in order

ASSUME ExistingAssumption == Existing \subseteq Keys

VARIABLES
  merged,      \* t_merged_theme, 0 when none
  resources,   \* the application's dictionary: key -> value
  originals,   \* t_originals: the first value each overridden key had
  entries,     \* t_entries
  watching,    \* t_ui_settings is subscribed to the colours
  refreshes    \* RefreshReferences enqueued on the thread, 0 or 1

resourceVars == <<merged, resources, originals, entries, watching, refreshes>>

App == <<"app">>
Absent == <<"absent">>
Override(t) == <<"theme", t>>
References(es) == {es[i][1] : i \in {j \in 1..Len(es) : es[j][2] = "reference"}}
KeysOf(es) == {es[i][1] : i \in 1..Len(es)}

ResourceInit ==
  /\ merged = 0
  /\ resources = [k \in Keys |-> IF k \in Existing THEN App ELSE Absent]
  /\ originals = [k \in {} |-> App]
  /\ entries = <<>>
  /\ watching = FALSE
  /\ refreshes = 0

(* What the restoring loop of the unmerge leaves in the dictionary.         *)
Restored ==
  IF merged = 0 THEN resources
  ELSE [k \in Keys |-> IF k \in DOMAIN originals THEN originals[k] ELSE resources[k]]

(* Originals that survive an unmerge: all of them when nothing was merged. *)
Surviving == IF merged = 0 THEN originals ELSE [k \in {} |-> App]

(* The bug a merge would have that saved the current value of a key again,  *)
(* when an entry names it twice.                                            *)
MergedTwice(t, found, base) ==
  [k \in found |-> IF \E i, j \in 1..Len(Entries[t]) :
                        i < j /\ Entries[t][i][1] = k /\ Entries[t][j][1] = k
                   THEN Override(t) ELSE base[k]]

(* try_emplace: a key keeps the first original it was given.                *)
FirstOriginals(t, found, base) == [k \in found |-> base[k]]

(* MergeResourceVariablesForThisThread: nothing for the theme that is       *)
(* merged; otherwise the previous one is taken back, and every entry whose  *)
(* key exists is overridden once.  A missing key is skipped, before its     *)
(* entry can ask for the colour watch, but stays among the entries.         *)
Merge(t) ==
  IF merged = t THEN UNCHANGED resourceVars
  ELSE LET base  == Restored
           found == {k \in KeysOf(Entries[t]) \ DOMAIN Surviving : base[k] # Absent}
       IN /\ merged' = t
          /\ entries' = Entries[t]
          /\ resources' = [k \in Keys |-> IF k \in found THEN Override(t) ELSE base[k]]
          /\ originals' = [k \in DOMAIN Surviving \cup found |->
                             IF k \in found THEN FirstOriginals(t, found, base)[k]
                             ELSE Surviving[k]]
          /\ watching' = (References(Entries[t]) \cap found # {})
          /\ UNCHANGED refreshes

(* UnmergeResourceVariablesForThisThread.                                   *)
Unmerge ==
  /\ merged' = 0
  /\ resources' = Restored
  /\ originals' = Surviving
  /\ entries' = IF merged = 0 THEN entries ELSE <<>>
  /\ watching' = (merged = 0 /\ watching)
  /\ UNCHANGED refreshes

(* ColorValuesChanged arrives on a thread of its own and enqueues.          *)
ColorsChange ==
  /\ watching
  /\ refreshes = 0
  /\ refreshes' = 1
  /\ UNCHANGED <<merged, resources, originals, entries, watching>>

(* RefreshReferences, when the thread's queue gets to it: for the entries   *)
(* that are there by then, those the merge skipped included.                *)
RefreshReferences ==
  /\ refreshes = 1
  /\ refreshes' = 0
  /\ resources' = [k \in Keys |-> IF k \in References(entries) THEN Override(merged)
                                  ELSE resources[k]]
  /\ UNCHANGED <<merged, originals, entries, watching>>

-----------------------------------------------------------------------------
(* Once a theme is taken back, every key that the application defines has   *)
(* the application's own value again, whatever refreshes were under way.    *)
(* (resource_variables.h promises the restoring.  A key the application     *)
(* lacks may have been added by a refresh, which this does not exclude.)    *)
OverridesUndone ==
  merged = 0 => \A k \in Existing : resources[k] = App
=============================================================================
