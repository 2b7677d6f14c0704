------------------------------ MODULE Stores ------------------------------
(***************************************************************************)
(* What the program remembers between two runs: pinned host keys, saved    *)
(* connections, transfer limits and the last local directory (src/store/). *)
(* Each is one file under %APPDATA%, read once when the program starts and *)
(* written anew, as a whole, after every change the user makes.  Nothing   *)
(* keeps a second instance of the program from running beside the first.   *)
(*                                                                         *)
(* A file is the sequence of the units its serializer writes; a write that *)
(* is cut short leaves a prefix of them.  No file and an empty file read   *)
(* alike and are both <<>>.  Windows is external: who may open a file that *)
(* another has open, and DPAPI, which opens whole blobs only.              *)
(*                                                                         *)
(* The four stores share no state, so a behaviour follows one of them,     *)
(* whichever: section names it, and what happens to the others is a stutter. *)
(***************************************************************************)
EXTENDS Integers, Sequences, SequencesExt

CONSTANTS Procs,        \* instances of the program that may run at a time
          Ends,         \* endpoints: a host with its port
          Keys,         \* host keys
          Names,        \* what the user types into a profile's text fields
          Typed,        \* the numbers he types for its port
          ExistingDirs, \* local directories, each the sequence of its parts
          Home,         \* %USERPROFILE%
          MaxHosts,     \* KH_MAX_HOSTS
          MaxProfiles,  \* CONN_MAX_PROFILES
          HardCap,      \* XFER_SETTINGS_HARD_CAP
          MaxDir,       \* LOCAL_DIR_STORE_MAX_SIZE, in parts of a path
          Found,        \* what the files may hold when the program first runs
          MaxEdits,     \* bound: changes the user makes
          MaxStarts     \* bound: times the program is started

Sections == {"dir", "profiles", "settings", "hosts"}

NoKey == "no key"
Pins == [end : Ends, key : Keys]
Ports == 1 .. 65535
Profiles == [name : Names, port : Ports]
Limits == [down : 1 .. HardCap, up : 1 .. HardCap]

\* What an instance can hold of a store.
Memories(s) ==
  CASE s = "hosts" -> {m \in Seq(Pins) : Len(m) <= MaxHosts}
    [] s = "profiles" -> {m \in Seq(Profiles) : Len(m) <= MaxProfiles}
    [] s = "settings" -> Limits
    [] s = "dir" -> ExistingDirs

IsSequence(u) == Len(u) \in Nat /\ u = [i \in 1 .. Len(u) |-> u[i]]

\* The units a file is cut into: any endpoints, keys and numbers, but a blob
\* that opens was sealed by an earlier run.
WellFormed(s, units) ==
  /\ IsSequence(units)
  /\ s = "hosts" => \A i \in DOMAIN units : IF i = 1 THEN units[i] \in Nat
                                            ELSE IF i % 2 = 0 THEN units[i] \in Ends
                                            ELSE units[i] \in Keys
  /\ s = "settings" => \A i \in DOMAIN units : units[i] \in Int
  /\ s = "profiles" /\ Len(units) = 2 => units[1] \in Memories(s)

ASSUME SizesAssumption == /\ MaxHosts \in Nat /\ MaxProfiles \in Nat
                          /\ HardCap \in Nat \ {0, 1} /\ MaxDir \in Nat
                          /\ MaxEdits \in Nat /\ MaxStarts \in Nat
                          /\ Typed \subseteq Nat
\* Windows opens no path as long as the store's limit, so none is ever cut.
ASSUME DirsAssumption == /\ Home \in ExistingDirs
                         /\ \A d \in ExistingDirs : IsSequence(d) /\ Len(d) \in 1 .. MaxDir
ASSUME FoundAssumption ==
  \A f \in Found : DOMAIN f = Sections /\ \A s \in Sections : WellFormed(s, f[s])

VARIABLES section, \* the store that is followed
          file,    \* its file
          app,     \* the instances of the program, and what each has of it
          edits,   \* how many changes the user has made (bounded)
          starts,  \* how often the program was started (bounded)
          trusted, \* history: every key the user has accepted, with its endpoint
          latest,  \* history: the key he accepted last for each endpoint
          missed,  \* history: instances that may not agree with the file
          mishap   \* history: a pin may have been lost outside the code's reach

vars == <<section, file, app, edits, starts, trusted, latest, missed, mishap>>

Pcs == {"off", "load", "read", "idle", "save", "write", "close"}

Clamp(v) == CASE v < 1 -> 1 [] v > HardCap -> HardCap [] OTHER -> v

ParsePort(n) == IF n \in Ports THEN n ELSE 22

----------------------------------------------------------------------------
(* What is written, and what a load makes of any file.                     *)

\* A count, then two units a record: the endpoint and the key's hash.
EncodeHosts(hosts) ==
  [i \in 1 .. 2 * Len(hosts) + 1 |->
     IF i = 1 THEN Len(hosts)
     ELSE IF i % 2 = 0 THEN hosts[i \div 2].end ELSE hosts[i \div 2].key]

\* Seeded fault: the bounds check forgets the hash behind the host and port.
DecodeHostsUnchecked(units) ==
  IF units = <<>> THEN <<>>
  ELSE LET announced == IF units[1] < MaxHosts THEN units[1] ELSE MaxHosts
           begun == Len(units) \div 2
       IN [i \in 1 .. (IF announced < begun THEN announced ELSE begun) |->
             [end |-> units[2 * i],
              key |-> IF 2 * i < Len(units) THEN units[2 * i + 1] ELSE NoKey]]

\* The records that are wholly there, as many as are announced and have room.
DecodeHosts(units) ==
  IF units = <<>> THEN <<>>
  ELSE LET announced == IF units[1] < MaxHosts THEN units[1] ELSE MaxHosts
           whole == (Len(units) - 1) \div 2
       IN [i \in 1 .. (IF announced < whole THEN announced ELSE whole) |->
             [end |-> units[2 * i], key |-> units[2 * i + 1]]]

\* Encrypted as one blob, which opens only when all of it is there.
EncodeProfiles(profiles) == <<profiles, "seal">>
DecodeProfiles(units) == IF Len(units) = 2 THEN units[1] ELSE <<>>

\* Seeded fault: the limits are written in the other order.
EncodeSettingsSwapped(limits) == <<Clamp(limits.up), Clamp(limits.down)>>

EncodeSettings(limits) == <<Clamp(limits.down), Clamp(limits.up)>>
DecodeSettings(units) ==
  IF Len(units) < 2 THEN [down |-> 2, up |-> 2]
  ELSE [down |-> Clamp(units[1]), up |-> Clamp(units[2])]

\* The directory shown at the start: the saved one if it is still one.
EncodeDir(dir) == SubSeq(dir, 1, IF Len(dir) < MaxDir THEN Len(dir) ELSE MaxDir)
DecodeDir(units) ==
  IF Len(units) \in 1 .. MaxDir /\ units \in ExistingDirs THEN units ELSE Home

Encode(s, mem) == CASE s = "hosts" -> EncodeHosts(mem)
                    [] s = "profiles" -> EncodeProfiles(mem)
                    [] s = "settings" -> EncodeSettings(mem)
                    [] s = "dir" -> EncodeDir(mem)

Decode(s, units) == CASE s = "hosts" -> DecodeHosts(units)
                      [] s = "profiles" -> DecodeProfiles(units)
                      [] s = "settings" -> DecodeSettings(units)
                      [] s = "dir" -> DecodeDir(units)

\* Where an endpoint stands among the pins, 0 if it does not.
PinAt(hosts, e) == SelectInSeq(hosts, LAMBDA h : h.end = e)

Find(hosts, e) == LET i == PinAt(hosts, e)
                  IN IF i = 0 THEN NoKey ELSE hosts[i].key

\* Seeded fault: an endpoint that is known keeps its key.
SetPinOnce(hosts, e, k) ==
  IF PinAt(hosts, e) = 0 /\ Len(hosts) < MaxHosts
  THEN Append(hosts, [end |-> e, key |-> k]) ELSE hosts

SetPin(hosts, e, k) ==
  LET i == PinAt(hosts, e)
  IN IF i # 0 THEN [hosts EXCEPT ![i].key = k]
     ELSE IF Len(hosts) < MaxHosts THEN Append(hosts, [end |-> e, key |-> k])
     ELSE hosts

----------------------------------------------------------------------------
Nothing == Decode(section, <<>>)
Off == [pc |-> "off", mem |-> Nothing, sel |-> 0, from |-> <<>>]

Running(p) == app[p].pc # "off"
Idle(p) == app[p].pc = "idle"
Writers == {p \in Procs : app[p].pc \in {"write", "close"}}
Readers == {p \in Procs : app[p].pc = "read"}
Idled(a) == [a EXCEPT !.pc = "idle"]

Init == /\ section \in Sections
        /\ \E found \in Found : file = found[section]
        /\ app = [p \in Procs |-> Off]
        /\ edits = 0 /\ starts = 0
        /\ LET pins == IF section = "hosts" THEN DecodeHosts(file) ELSE <<>>
           IN /\ trusted = {pins[i] : i \in DOMAIN pins}
              /\ latest = [e \in Ends |-> Find(pins, e)]
        /\ missed = {}
        /\ mishap = FALSE

----------------------------------------------------------------------------
(* Starting and ending the program.                                        *)

Start(p) ==
  /\ ~Running(p) /\ starts < MaxStarts
  /\ app' = [app EXCEPT ![p] = [Off EXCEPT !.pc = "load"]]
  /\ starts' = starts + 1
  /\ missed' = missed \ {p}
  /\ mishap' = (mishap \/ \E q \in Procs \ {p} : Running(q))
  /\ UNCHANGED <<section, file, edits, trusted, latest>>

\* CreateFileW for reading shares with readers only.
LoadOpen(p) ==
  /\ app[p].pc = "load" /\ Writers = {}
  /\ app' = [app EXCEPT ![p].pc = "read"]
  /\ UNCHANGED <<section, file, edits, starts, trusted, latest, missed, mishap>>

LoadRead(p) ==
  /\ app[p].pc = "read"
  /\ app' = [app EXCEPT ![p] = [Idled(@) EXCEPT !.mem = Decode(section, file)]]
  /\ missed' = missed \ {p}
  /\ UNCHANGED <<section, file, edits, starts, trusted, latest, mishap>>

\* No file, a file in use, a failed read, a blob that does not open: all are
\* taken for a first run.
LoadFails(p) ==
  LET lost == file # <<>> \/ Writers # {}
  IN /\ app[p].pc \in {"load", "read"}
     /\ app' = [app EXCEPT ![p] = Idled(@)]
     /\ missed' = (IF lost THEN missed \cup {p} ELSE missed)
     /\ mishap' = (mishap \/ lost)
     /\ UNCHANGED <<section, file, edits, starts, trusted, latest>>

\* The user closes the program, or it dies in the middle of anything.
Exit(p) ==
  /\ Running(p)
  /\ app' = [app EXCEPT ![p] = Off]
  /\ mishap' = (mishap \/ app[p].pc \in {"save", "write"})
  /\ UNCHANGED <<section, file, edits, starts, trusted, latest, missed>>

----------------------------------------------------------------------------
(* What the user does: a change of the memory, then a save.                *)

Change(p, a) ==
  /\ edits < MaxEdits
  /\ edits' = edits + 1
  /\ app' = [app EXCEPT ![p] = [a EXCEPT !.pc = "save"]]
  /\ UNCHANGED <<section, file, starts, missed>>

\* "Trust" in the prompt for a key that is not the pinned one.
Trust(p, e, k) ==
  LET hosts == app[p].mem
  IN /\ section = "hosts" /\ Idle(p) /\ Find(hosts, e) # k
     /\ Change(p, [app[p] EXCEPT !.mem = SetPin(hosts, e, k)])
     /\ trusted' = trusted \cup {[end |-> e, key |-> k]}
     /\ latest' = [latest EXCEPT ![e] = k]
     /\ mishap' = (mishap \/ (PinAt(hosts, e) = 0 /\ Len(hosts) = MaxHosts))

\* The steppers of the settings dialog.
Stepper(p, field, by) ==
  LET value == app[p].mem[field] + by
  IN /\ section = "settings" /\ Idle(p)
     /\ Change(p, IF value \in 1 .. HardCap
                  THEN [app[p] EXCEPT !.mem[field] = value] ELSE app[p])
     /\ UNCHANGED <<trusted, latest, mishap>>

\* A double click on a directory of the local pane, or on "..".
Navigate(p, d) ==
  LET here == app[p].mem
  IN /\ section = "dir" /\ Idle(p)
     /\ \/ Len(here) > 1 /\ d = Front(here)
        \/ Len(d) > 1 /\ here = Front(d)
     /\ Change(p, [app[p] EXCEPT !.mem = d])
     /\ UNCHANGED <<trusted, latest, mishap>>

\* A click on a saved connection, and "New".
Pick(p, i) ==
  /\ section = "profiles" /\ Idle(p) /\ i \in DOMAIN app[p].mem
  /\ app' = [app EXCEPT ![p].sel = i, ![p].from = <<app[p].mem[i]>>]
  /\ UNCHANGED <<section, file, edits, starts, trusted, latest, missed, mishap>>

New(p) ==
  /\ section = "profiles" /\ Idle(p)
  /\ app' = [app EXCEPT ![p].sel = 0, ![p].from = <<>>]
  /\ UNCHANGED <<section, file, edits, starts, trusted, latest, missed, mishap>>

\* The list and the selection that "Save" makes of the fields.
SavedProfile(a, v) ==
  CASE a.sel \in DOMAIN a.mem ->
         [a EXCEPT !.mem[a.sel] = v, !.from = <<v>>]
    [] a.sel \notin DOMAIN a.mem /\ Len(a.mem) < MaxProfiles ->
         [a EXCEPT !.mem = Append(@, v), !.sel = Len(a.mem) + 1, !.from = <<v>>]
    [] OTHER -> a

\* Seeded fault: the row stays selected, and another connection stands in it.
DeletedButSelected(a) == [a EXCEPT !.mem = RemoveAt(@, a.sel)]

\* The list and the selection that "Delete" makes.
DeletedProfile(a) ==
  [a EXCEPT !.mem = RemoveAt(@, a.sel), !.sel = 0, !.from = <<>>]

SaveProfile(p, name, n) ==
  /\ section = "profiles" /\ Idle(p)
  /\ Change(p, SavedProfile(app[p], [name |-> name, port |-> ParsePort(n)]))
  /\ UNCHANGED <<trusted, latest, mishap>>

DeleteProfile(p) ==
  /\ section = "profiles" /\ Idle(p) /\ app[p].sel \in DOMAIN app[p].mem
  /\ Change(p, DeletedProfile(app[p]))
  /\ UNCHANGED <<trusted, latest, mishap>>

----------------------------------------------------------------------------
(* Saving: truncate, write, close.  No failure is reported to anyone.      *)

SaveFails(p) ==
  /\ app[p].pc = "save"
  /\ app' = [app EXCEPT ![p] = Idled(@)]
  /\ missed' = missed \cup {p}
  /\ mishap' = TRUE
  /\ UNCHANGED <<section, file, edits, starts, trusted, latest>>

\* CreateFileW for writing shares with nobody; CREATE_ALWAYS empties the file.
SaveOpen(p) ==
  /\ app[p].pc = "save" /\ Writers \cup Readers = {}
  /\ app' = [app EXCEPT ![p].pc = "write"]
  /\ file' = <<>>
  /\ missed' = missed \cup {q \in Procs \ {p} : Running(q)}
  /\ UNCHANGED <<section, edits, starts, trusted, latest, mishap>>

\* WriteFile may write less than it is given; nobody looks at how much.
SaveWrite(p) ==
  LET units == Encode(section, app[p].mem)
  IN /\ app[p].pc = "write"
     /\ \E n \in 0 .. Len(units) :
          /\ file' = SubSeq(units, 1, n)
          /\ missed' = (IF n = Len(units) THEN missed \ {p}
                        ELSE missed \cup {p})
          /\ mishap' = (mishap \/ n < Len(units))
     /\ app' = [app EXCEPT ![p].pc = "close"]
     /\ UNCHANGED <<section, edits, starts, trusted, latest>>

SaveClose(p) ==
  /\ app[p].pc = "close"
  /\ app' = [app EXCEPT ![p] = Idled(@)]
  /\ UNCHANGED <<section, file, edits, starts, trusted, latest, missed, mishap>>

----------------------------------------------------------------------------
User(p) == \/ \E e \in Ends, k \in Keys : Trust(p, e, k)
           \/ \E field \in {"down", "up"}, by \in {-1, 1} : Stepper(p, field, by)
           \/ \E d \in ExistingDirs : Navigate(p, d)
           \/ \E i \in 1 .. MaxProfiles : Pick(p, i)
           \/ New(p)
           \/ \E name \in Names, n \in Typed : SaveProfile(p, name, n)
           \/ DeleteProfile(p)

Next == \E p \in Procs :
          \/ Start(p) \/ LoadOpen(p) \/ LoadRead(p) \/ LoadFails(p) \/ Exit(p)
          \/ User(p)
          \/ SaveFails(p) \/ SaveOpen(p) \/ SaveWrite(p) \/ SaveClose(p)

Spec == Init /\ [][Next]_vars

----------------------------------------------------------------------------
(* Whatever the files held, the program's memory is in range: at most      *)
(* MaxHosts pins and MaxProfiles connections, ports and limits a transfer  *)
(* can be started with (xfer_dispatch counts on limits of at least one),   *)
(* a local directory that exists.                                          *)
TypeOK ==
  /\ section \in Sections
  /\ WellFormed(section, file)
  /\ app \in [Procs -> [pc : Pcs, mem : Memories(section),
                        sel : 0 .. MaxProfiles, from : Seq(Profiles)]]
  /\ edits \in 0 .. MaxEdits /\ starts \in 0 .. MaxStarts
  /\ trusted \subseteq Pins
  /\ latest \in [Ends -> Keys \cup {NoKey}]
  /\ missed \subseteq Procs /\ mishap \in BOOLEAN

(* A key is pinned for an endpoint only if the user accepted that key for  *)
(* that endpoint, or the first file said so: not even a file torn in the middle of a record, by a     *)
(* crash or a full disk, by this instance or another, gives anything else. *)
OnlyTrusted ==
  section = "hosts" =>
    LET All(hosts) == {hosts[i] : i \in DOMAIN hosts}
    IN /\ All(DecodeHosts(file)) \subseteq trusted
       /\ \A p \in Procs : All(app[p].mem) \subseteq trusted

(* In every frame, closing the program and starting it again would bring   *)
(* back exactly what it shows, unless a load or a save of that store has   *)
(* failed or another instance has written the file since.                  *)
RestartShows ==
  \A p \in Procs : Idle(p) /\ p \notin missed => Decode(section, file) = app[p].mem

(* The selected row of the Connections dialog is the connection that was   *)
(* picked or saved last, through every sequence of clicks: Save overwrites *)
(* and Delete removes the connection whose fields the user sees.           *)
SelectionIsReal ==
  \A p \in Procs :
    IF app[p].sel = 0 THEN app[p].from = <<>>
    ELSE app[p].sel \in DOMAIN app[p].mem /\ app[p].from = <<app[p].mem[app[p].sel]>>

(* The key the user accepted last for an endpoint is the one that its next *)
(* connection is compared with, in this run of the program and in later    *)
(* ones, so that a changed key is announced as changed.  What can undo it  *)
(* is out of the store's hands or past its limit: a save or load that      *)
(* fails or is cut, a second instance, a 257th host.                       *)
PinsAreRemembered ==
  section = "hosts" /\ ~mishap =>
    \A p \in Procs, e \in Ends : Idle(p) => Find(app[p].mem, e) = latest[e]

=============================================================================
