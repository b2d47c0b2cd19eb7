---------------------------- MODULE FolderLayout ----------------------------
(***************************************************************************)
(* The folder list and its groups: two shared tables that hold the layout  *)
(* of one account at a time (folder_layout.rs), the commands that change   *)
(* them (commands/folder_groups.rs, commands/fs.rs) and the folder scan    *)
(* that merges Telegram's channels into them.  A swap of layouts holds the *)
(* database connection; the process may end between any two of its steps.  *)
(* A row's title stands for the columns copied from Telegram (name,        *)
(* username, is_public), a group's look for its name, colour and order.    *)
(***************************************************************************)
EXTENDS Naturals, FiniteSets

CONSTANTS LayoutAccounts,  \* accounts
          Channels,        \* Telegram channels that are folders
          HolderOf,        \* Channel -> the account that has it
          AboutOnly,       \* channels marked as a folder in their About text only
          GroupIds,        \* groups
          MaxEdits         \* bound: changes the user makes

ASSUME HolderAssumption == HolderOf \in [Channels -> LayoutAccounts]
ASSUME MaxEditsAssumption == MaxEdits \in Nat

NoAccount == "nobody"
Unmarked == "unmarked"    \* no marker file: data of an earlier release

ASSUME AccountNames == {NoAccount, Unmarked} \cap LayoutAccounts = {}

VARIABLES
  layoutSession,       \* current_owner: the signed-in account
  leaving,       \* the account cmd_logout is signing out
  owner_marker,  \* folder-layout.owner
  shared,        \* the two tables
  saved,         \* the folder_layout record of each account's store
  left,          \* history: each account's layout as last changed while in place
  remote,        \* Channel -> its title at Telegram, 0 when there is none
  swap,          \* the layout swap that holds the connection
  reader,        \* the account cmd_get_enriched_folders or cmd_get_groups captured
  pending,       \* folder commands Telegram has carried out, not yet in the tables
  scan,          \* cmd_scan_folders
  edits          \* changes made

layoutVars == <<layoutSession, leaving, owner_marker, shared, saved, left, remote, swap, reader, pending, scan, edits>>

EmptyLayout == [groups |-> <<>>, rows |-> <<>>]
NoSwap == [step |-> "none", to |-> NoAccount, for |-> "none"]
NoScan == [pc |-> "idle", owner |-> NoAccount, known |-> {}, found |-> <<>>]
Folders == DOMAIN shared.rows
NextOrder(rows) == Cardinality(DOMAIN rows) + 1
Put(f, k, v) == [x \in DOMAIN f \cup {k} |-> IF x = k THEN v ELSE f[x]]
DropFolder(f, S) == [x \in DOMAIN f \ S |-> f[x]]
NewRow(c, rows) == [group |-> 0, order |-> NextOrder(rows), title |-> remote[c]]

LayoutInit ==
  /\ layoutSession = NoAccount /\ leaving = NoAccount /\ owner_marker = Unmarked
  /\ remote \in [Channels -> 0..1]
  /\ \E a \in LayoutAccounts : shared =
       [groups |-> <<>>, rows |-> [c \in {c \in Channels : HolderOf[c] = a /\ remote[c] = 1} |-> NewRow(c, <<>>)]]
  /\ saved = [a \in LayoutAccounts |-> EmptyLayout] /\ left = saved
  /\ swap = NoSwap /\ reader = "idle" /\ pending = {} /\ scan = NoScan /\ edits = 0

ConnectionFree == swap = NoSwap

\* Any change of the tables is credited to the account the marker names.
SetTables(t) ==
  /\ shared' = t
  /\ left' = IF owner_marker \in LayoutAccounts THEN [left EXCEPT ![owner_marker] = t] ELSE left

\* ---- sessions
SignIn(a) ==
  /\ layoutSession = NoAccount /\ leaving = NoAccount /\ layoutSession' = a
  /\ UNCHANGED <<leaving, owner_marker, shared, saved, left, remote, swap, reader, pending, scan, edits>>

Logout ==
  /\ layoutSession # NoAccount /\ leaving = NoAccount
  /\ leaving' = layoutSession /\ layoutSession' = NoAccount
  /\ UNCHANGED <<owner_marker, shared, saved, left, remote, swap, reader, pending, scan, edits>>

\* ---- activate and deactivate, from the marker on
NeedsSave(to) == owner_marker \in LayoutAccounts /\ owner_marker # to

SavedFor(account) == [saved EXCEPT ![account] = shared]

\* save_for(previous), or nothing to save.
ActivateStep(to, for) ==
  \/ /\ owner_marker = to
     /\ swap' = [step |-> "ready", to |-> to, for |-> for] /\ UNCHANGED <<owner_marker, saved, left>>
  \/ /\ owner_marker = Unmarked
     /\ owner_marker' = to /\ left' = [left EXCEPT ![to] = shared]
     /\ swap' = [step |-> "ready", to |-> to, for |-> for] /\ UNCHANGED saved
  \/ /\ owner_marker \notin {to, Unmarked}
     /\ saved' = IF NeedsSave(to) THEN SavedFor(owner_marker) ELSE saved
     /\ swap' = [step |-> "disown", to |-> to, for |-> for] /\ UNCHANGED <<owner_marker, left>>

Deactivate ==
  /\ leaving # NoAccount /\ ConnectionFree
  /\ LET owner == IF owner_marker = Unmarked THEN leaving ELSE owner_marker IN
       /\ saved' = IF owner # NoAccount THEN [saved EXCEPT ![owner] = shared] ELSE saved
       /\ left' = IF owner_marker = Unmarked THEN [left EXCEPT ![owner] = shared] ELSE left
  /\ swap' = [step |-> "disown", to |-> NoAccount, for |-> "logout"]
  /\ UNCHANGED <<layoutSession, leaving, owner_marker, shared, remote, reader, pending, scan, edits>>

\* The slip of leaving the marker alone until the new layout is in place.
DisownLate ==
  /\ swap.step = "disown"
  /\ swap' = [swap EXCEPT !.step = "replace"]
  /\ UNCHANGED <<layoutSession, leaving, owner_marker, shared, saved, left, remote, reader, pending, scan, edits>>

Disown ==
  /\ swap.step = "disown"
  /\ owner_marker' = NoAccount /\ swap' = [swap EXCEPT !.step = "replace"]
  /\ UNCHANGED <<layoutSession, leaving, shared, saved, left, remote, reader, pending, scan, edits>>

\* write_tables: one transaction.
ReplaceTables ==
  /\ swap.step = "replace"
  /\ shared' = IF swap.to = NoAccount THEN EmptyLayout ELSE saved[swap.to]
  /\ swap' = [swap EXCEPT !.step = "own"]
  /\ UNCHANGED <<layoutSession, leaving, owner_marker, saved, left, remote, reader, pending, scan, edits>>

OwnTables ==
  /\ swap.step = "own" /\ swap.for # "logout"
  /\ owner_marker' = swap.to /\ swap' = [swap EXCEPT !.step = "ready"]
  /\ UNCHANGED <<layoutSession, leaving, shared, saved, left, remote, reader, pending, scan, edits>>

\* The command the swap was for, when it ends with an error.
Abandoned ==
  /\ swap' = NoSwap
  /\ reader' = IF swap.for = "list" THEN "idle" ELSE reader
  /\ scan' = IF swap.for \in {"known", "merge"} THEN NoScan ELSE scan
  /\ leaving' = IF swap.for = "logout" THEN NoAccount ELSE leaving

SwapFails ==
  /\ swap.step \in {"disown", "replace", "own"} /\ ~(swap.step = "own" /\ swap.for = "logout")
  /\ Abandoned /\ UNCHANGED <<layoutSession, owner_marker, shared, saved, left, remote, pending, edits>>

LogoutDone ==
  /\ swap.step = "own" /\ swap.for = "logout"
  /\ Abandoned /\ UNCHANGED <<layoutSession, owner_marker, shared, saved, left, remote, pending, edits>>

\* ---- cmd_get_enriched_folders, cmd_get_groups: the account is captured
\* before the connection is taken and not looked at again
LayoutScope ==
  /\ reader = "idle" /\ reader' = layoutSession
  /\ UNCHANGED <<layoutSession, leaving, owner_marker, shared, saved, left, remote, swap, pending, scan, edits>>

PrepareLayout ==
  /\ reader # "idle" /\ ConnectionFree
  /\ IF reader = NoAccount
     THEN reader' = "idle" /\ UNCHANGED <<swap, owner_marker, saved, left>>
     ELSE ActivateStep(reader, "list") /\ UNCHANGED reader
  /\ UNCHANGED <<layoutSession, leaving, shared, remote, pending, scan, edits>>

EnrichedFolders ==
  /\ swap.step = "ready" /\ swap.for = "list"
  /\ swap' = NoSwap /\ reader' = "idle"
  /\ UNCHANGED <<layoutSession, leaving, owner_marker, shared, saved, left, remote, pending, scan, edits>>

\* ---- cmd_scan_folders
ScanFolders ==
  /\ layoutSession # NoAccount /\ scan.pc = "idle"
  /\ scan' = [NoScan EXCEPT !.pc = "known", !.owner = layoutSession]
  /\ UNCHANGED <<layoutSession, leaving, owner_marker, shared, saved, left, remote, swap, reader, pending, edits>>

\* Both of the scan's uses of the connection validate the account first.
ScanPrepares(stage) ==
  /\ scan.pc = stage /\ ConnectionFree
  /\ IF layoutSession = scan.owner
     THEN ActivateStep(scan.owner, stage) /\ UNCHANGED scan
     ELSE scan' = NoScan /\ UNCHANGED <<swap, owner_marker, saved, left>>
  /\ UNCHANGED <<layoutSession, leaving, shared, remote, reader, pending, edits>>

KnownFolders ==
  /\ swap.step = "ready" /\ swap.for = "known"
  /\ scan' = [scan EXCEPT !.pc = "dialogs", !.known = Folders] /\ swap' = NoSwap
  /\ UNCHANGED <<layoutSession, leaving, owner_marker, shared, saved, left, remote, reader, pending, edits>>

\* The dialogs: folders by title, folders already known, and those whose About
\* text could be read and has the mark.
IterDialogs ==
  /\ scan.pc = "dialogs"
  /\ LET live == {c \in Channels : HolderOf[c] = scan.owner /\ remote[c] # 0}
         sure == {c \in live : c \notin AboutOnly \/ c \in scan.known}
     IN \/ \E S \in SUBSET (live \ sure) :
             scan' = [scan EXCEPT !.pc = "merge", !.found = [c \in sure \cup S |-> remote[c]]]
        \/ scan' = NoScan
  /\ UNCHANGED <<layoutSession, leaving, owner_marker, shared, saved, left, remote, swap, reader, pending, edits>>

\* get_enriched_folders_internal, first half: update the known, insert the new.
MergeFolders ==
  /\ swap.step = "ready" /\ swap.for = "merge"
  /\ LET new == DOMAIN scan.found \ Folders
         merged == [c \in Folders \cup new |->
                      IF c \in new THEN [group |-> 0, order |-> NextOrder(shared.rows), title |-> scan.found[c]]
                      ELSE IF c \in DOMAIN scan.found THEN [shared.rows[c] EXCEPT !.title = scan.found[c]]
                      ELSE shared.rows[c]]
     IN SetTables([shared EXCEPT !.rows = merged])
  /\ swap' = [swap EXCEPT !.step = "prune"]
  /\ UNCHANGED <<layoutSession, leaving, owner_marker, saved, remote, reader, pending, scan, edits>>

\* Second half: rows the listing has not got are deleted.
PruneFolders ==
  /\ swap.step = "prune"
  /\ SetTables([shared EXCEPT !.rows = DropFolder(shared.rows, Folders \ DOMAIN scan.found)])
  /\ Abandoned
  /\ UNCHANGED <<layoutSession, owner_marker, saved, remote, pending, edits>>

\* ---- create, delete, rename and visibility: Telegram first, the row later,
\* into whatever layout the tables hold by then
Edit == edits < MaxEdits /\ edits' = edits + 1

AtTelegram(kind, c) ==
  /\ layoutSession = HolderOf[c] /\ Edit
  /\ (kind = "create") = (remote[c] = 0)
  /\ remote' = [remote EXCEPT ![c] = CASE kind = "create" -> 1 [] kind = "delete" -> 0 [] OTHER -> 2]
  /\ pending' = pending \cup {[kind |-> kind, channel |-> c, title |-> remote'[c]]}
  /\ UNCHANGED <<layoutSession, leaving, owner_marker, shared, saved, left, swap, reader, scan>>

CreateFolder(c) == AtTelegram("create", c)
DeleteFolder(c) == AtTelegram("delete", c)
RenameFolder(c) == AtTelegram("rename", c)
ToggleVisibility(c) == AtTelegram("visibility", c)

\* INSERT fails when the row is there; UPDATE and DELETE may touch no row.
RowsAfter(p, rows) ==
  CASE p.kind = "create" /\ p.channel \notin DOMAIN rows ->
         Put(rows, p.channel, [group |-> 0, order |-> NextOrder(rows), title |-> p.title])
    [] p.kind = "delete" -> DropFolder(rows, {p.channel})
    [] p.kind \in {"rename", "visibility"} /\ p.channel \in DOMAIN rows ->
         [rows EXCEPT ![p.channel].title = p.title]
    [] OTHER -> rows

RecordFolder(p) ==
  /\ p \in pending /\ ConnectionFree /\ pending' = pending \ {p}
  /\ SetTables([shared EXCEPT !.rows = RowsAfter(p, shared.rows)])
  /\ UNCHANGED <<layoutSession, leaving, owner_marker, saved, remote, swap, reader, scan, edits>>

\* ---- order and groups: the tables only
TableCommand(t) ==
  /\ layoutSession # NoAccount /\ ConnectionFree /\ Edit /\ SetTables(t)
  /\ UNCHANGED <<layoutSession, leaving, owner_marker, saved, remote, swap, reader, pending, scan>>

UpdateFolderOrder(c) == c \in Folders /\ TableCommand([shared EXCEPT !.rows[c].order = 0])
CreateGroup(g) == g \notin DOMAIN shared.groups /\ TableCommand([shared EXCEPT !.groups = Put(shared.groups, g, 1)])
UpdateGroup(g) == g \in DOMAIN shared.groups /\ TableCommand([shared EXCEPT !.groups[g] = 2])
AssignFolderToGroup(c, g) == c \in Folders /\ TableCommand([shared EXCEPT !.rows[c].group = g])
DeleteGroup(g) ==
  TableCommand([groups |-> DropFolder(shared.groups, {g}),
                rows |-> [c \in Folders |-> IF shared.rows[c].group = g THEN [shared.rows[c] EXCEPT !.group = 0]
                                            ELSE shared.rows[c]]])

\* The process ends; the next one starts with whatever session it restores.
LayoutCrash ==
  /\ layoutSession' = NoAccount /\ leaving' = NoAccount /\ swap' = NoSwap /\ reader' = "idle"
  /\ pending' = {} /\ scan' = NoScan
  /\ UNCHANGED <<owner_marker, shared, saved, left, remote, edits>>

FolderCommands ==
  \/ \E c \in Channels : CreateFolder(c) \/ DeleteFolder(c) \/ RenameFolder(c) \/ ToggleVisibility(c)
                         \/ UpdateFolderOrder(c) \/ \E g \in GroupIds \cup {0} : AssignFolderToGroup(c, g)
  \/ \E g \in GroupIds : CreateGroup(g) \/ UpdateGroup(g) \/ DeleteGroup(g)
  \/ \E p \in pending : RecordFolder(p)

LayoutNext ==
  \/ \E a \in LayoutAccounts : SignIn(a)
  \/ Logout \/ Deactivate \/ Disown \/ ReplaceTables \/ OwnTables \/ SwapFails \/ LogoutDone
  \/ LayoutScope \/ PrepareLayout \/ EnrichedFolders
  \/ ScanFolders \/ \E s \in {"known", "merge"} : ScanPrepares(s)
  \/ KnownFolders \/ IterDialogs \/ MergeFolders \/ PruneFolders
  \/ FolderCommands \/ LayoutCrash

LayoutSpec == LayoutInit /\ [][LayoutNext]_layoutVars

IsLayout(l) ==
  /\ l = [groups |-> l.groups, rows |-> l.rows]
  /\ DOMAIN l.groups \subseteq GroupIds /\ DOMAIN l.rows \subseteq Channels

LayoutTypeOK ==
  /\ layoutSession \in LayoutAccounts \cup {NoAccount} /\ leaving \in LayoutAccounts \cup {NoAccount}
  /\ owner_marker \in LayoutAccounts \cup {NoAccount, Unmarked}
  /\ remote \in [Channels -> 0..2] /\ edits \in 0..MaxEdits
  /\ pending \subseteq [kind : {"create", "delete", "rename", "visibility"}, channel : Channels, title : 0..2]
  /\ reader \in LayoutAccounts \cup {NoAccount, "idle"}
  /\ swap \in [step : {"none", "disown", "replace", "own", "ready", "prune"},
               to : LayoutAccounts \cup {NoAccount}, for : {"none", "list", "known", "merge", "logout"}]
  /\ IsLayout(shared) /\ saved = [a \in LayoutAccounts |-> saved[a]] /\ left = [a \in LayoutAccounts |-> left[a]]
  /\ \A a \in LayoutAccounts : IsLayout(saved[a]) /\ IsLayout(left[a])

\* The scan that runs, and the swap that was made for it.
ScanSound ==
  /\ scan = [pc |-> scan.pc, owner |-> scan.owner, known |-> scan.known, found |-> scan.found]
  /\ scan.pc \in {"idle", "known", "dialogs", "merge"} /\ scan.owner \in LayoutAccounts \cup {NoAccount}
  /\ scan.known \subseteq Channels /\ DOMAIN scan.found \subseteq Channels
  /\ scan.pc # "idle" => scan.owner # NoAccount
  /\ swap.for \in {"known", "merge"} => scan.pc = swap.for

\* What a swap has done at each of its steps: the layout it takes out is in its
\* account's store before the marker goes, and nobody owns the tables while they
\* are replaced by the layout of the account the marker will name.
SwapSound ==
  /\ swap.step = "disown" /\ owner_marker \in LayoutAccounts => saved[owner_marker] = shared
  /\ swap.step \in {"replace", "own"} => owner_marker = NoAccount
  /\ swap.step # "none" /\ swap.for # "logout" => swap.to \in LayoutAccounts
  /\ swap.step = "own" /\ swap.for # "logout" => shared = saved[swap.to]

(* No account's layout is lost or taken for another's: while the marker    *)
(* names an account the tables hold its layout as last changed, and every  *)
(* other account's layout as last changed is in its own store, wherever    *)
(* the process ended and whichever step of a swap failed                   *)
(* (folder_layout.rs activate, deactivate).                                *)
LayoutKept ==
  \A a \in LayoutAccounts : left[a] = IF owner_marker = a THEN shared ELSE saved[a]

(* The layouts of all accounts, in the shared tables and in their stores.  *)
LayoutInv == LayoutTypeOK /\ ScanSound /\ SwapSound /\ LayoutKept
=============================================================================
