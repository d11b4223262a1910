------------------------------- MODULE AtaDos -------------------------------
(***************************************************************************)
(* The monitor's disk: the ATA driver (orpmon/drivers/ata.c), the walk     *)
(* through the root directory of a DOS disk (services/dos.c) and the       *)
(* commands that use them (cmds/hdbug.c, cmds/atabug.c).                   *)
(*                                                                         *)
(* The program has one thread: a command is a step, but listings and       *)
(* searches take a step for every entry.  A device that is held in reset,  *)
(* or that finds an error after the one look at its status, leaves a poll  *)
(* without end: hung.  Of a sector the model keeps where it lies; entries  *)
(* of a directory are numbered in their cluster.                           *)
(***************************************************************************)
EXTENDS Integers, FiniteSetsExt, Functions

CONSTANTS Kind,       \* of each device: "cfa", "ata", "features" or "other"
          Pio,        \* highest mode each supports: 2, 3 or 4
          HostType,   \* TYPE of the controller: above 1 it has timings of their own for data
          Base,       \* of the digits a sector number is split into, 256
          Sectors,    \* of each device
          Counts,     \* sectors of a request
          Fats, PerFat, PerCluster, PerSector, RootEntries, \* of the disk; PerSector entries in a sector
          MaxOpens, MaxCommands

Device == 0 .. 1
DiskAssumption ==
    /\ Kind \in [Device -> {"cfa", "ata", "features", "other"}] /\ Pio \in [Device -> 2 .. 4]
    /\ Base \in Nat \ {0, 1} /\ Sectors \in 1 .. Base ^ 4

VARIABLES
    usage, current_pio_mode,
    ctrl, pctr, pftr,      \* the controller's registers: bits set, modes the timings stand for
    dev,                   \* DEV bit of the device/head register
    inode,                 \* device atabug works on
    dos,                   \* struct dosparam: device, ssector, csector, sentry, the cluster in cbuf
    walk,                  \* a listing or a search under way: entry, and what for
    got,                   \* what the last request or entry asked for and got; claimed when the property speaks of it
    good,                  \* the last reset to the start of the directory has read it
    hung, commands

driver == <<usage, current_pio_mode, ctrl, pctr, pftr, dev>>
vars == <<driver, inode, dos, walk, got, good, hung, commands>>

None == [asked |-> <<>>, given |-> <<>>, claimed |-> FALSE]
Idle == walk.for = "none" /\ ~hung /\ commands < MaxCommands

-----------------------------------------------------------------------------
(* ata_ioctl: s is the driver's and the controller's state.                 *)

State == [usage |-> usage, pio |-> current_pio_mode, ctrl |-> ctrl, pctr |-> pctr, pftr |-> pftr, dev |-> dev]
Becomes(s) ==
    /\ usage' = s.usage /\ current_pio_mode' = s.pio /\ ctrl' = s.ctrl
    /\ pctr' = s.pctr /\ pftr' = s.pftr /\ dev' = s.dev

SetRst(s) == [s EXCEPT !.ctrl = @ \cup {"RST"}]
ClearRst(s) == [s EXCEPT !.ctrl = @ \ {"RST"}]
EnableHost(s) == [s EXCEPT !.ctrl = @ \cup {"IDE_EN"}]
\* The wait for a device in reset does not end.
Waits(s) == "RST" \in s.ctrl
\* Fault: the device stays the one selected.
SelectDevice_Not(s, d) == s
SelectDevice(s, d) == [s EXCEPT !.dev = d]

SetFte(s, d) == [s EXCEPT !.ctrl = @ \cup {IF d = 1 THEN "FTE0" ELSE "FTE1"}]
\* The slowest mode wins for the registers; the IORDY bit of device 1 is used for both.
SetPio(s, d, mode) ==
    LET registers == IF mode >= s.pio THEN s
                     ELSE [s EXCEPT !.pio = mode, !.pctr = mode,
                                    !.ctrl = IF mode > 0 THEN @ \cup {"IORDY"} ELSE @ \ {"IORDY"}]
        data == [registers EXCEPT !.pftr[d] = mode,
                                  !.ctrl = IF mode > 0 THEN @ \cup {"FTE1"} ELSE @ \ {"FTE1"}]
    IN IF HostType > 1 THEN SetFte(data, d) ELSE registers

Release(s, d) ==
    LET left == [s EXCEPT !.usage[d] = @ - 1] IN IF left.usage[d] = 0 THEN SetRst(left) ELSE left

\* Open: the device identified is the one the DEV bit selects.
Valid(d) == Kind[d] # "other"
Ready(s, d) ==
    LET used == [s EXCEPT !.usage[d] = @ + 1]
    IN IF s.usage[d] > 0 THEN used ELSE EnableHost(SetPio(ClearRst(used), d, 0))
Identified(s, d) == IF Valid(s.dev) THEN SetPio(s, d, Pio[s.dev]) ELSE Release(s, d)
ata_open(s, d) == LET r == Ready(s, d) IN IF Waits(r) THEN r ELSE Identified(SelectDevice(r, d), d)
Opens(s, d) == ~Waits(Ready(s, d)) /\ Valid(SelectDevice(Ready(s, d), d).dev)

-----------------------------------------------------------------------------
(* ata_request.                                                             *)

\* The sector number goes to four registers, the highest with the mode and without the DEV bit.
DHR(sector) == [lba |-> (sector \div Base ^ 3) % Base, dev |-> 0]
CHR(sector) == (sector \div Base ^ 2) % Base
CLR(sector) == (sector \div Base) % Base
SNR(sector) == sector % Base
\* Fault: the cylinder's bytes are exchanged.
Addressed_Swapped(sector) ==
    DHR(sector).lba * Base ^ 3 + CLR(sector) * Base ^ 2 + CHR(sector) * Base + SNR(sector)
Addressed(sector) ==
    DHR(sector).lba * Base ^ 3 + CHR(sector) * Base ^ 2 + CLR(sector) * Base + SNR(sector)
SCR(n) == n % Base
Sent(sector, n) ==
    [i \in 0 .. (IF SCR(n) = 0 THEN Base ELSE SCR(n)) - 1 |-> <<DHR(sector).dev, Addressed(sector) + i>>]
Requested(s, d, sector) == [SelectDevice(s, d) EXCEPT !.dev = DHR(sector).dev]

\* What becomes of a request: the status is looked at once, right after the command.
Outcomes(s, sector, n) ==
    IF Waits(s) THEN {"hangs"}
    ELSE {"error", "hangs"} \cup (IF sector + n <= Sectors THEN {"ok"} ELSE {})

-----------------------------------------------------------------------------
(* The commands of atabug.                                                  *)

Command == commands' = commands + 1 /\ UNCHANGED <<dos, walk, good>>

\* <<dos.ssector etc.>> is left alone by atabug.
ata_open_cmd(d) ==
    /\ Idle /\ usage[d] < MaxOpens
    /\ inode' = d /\ Becomes(ata_open(State, d)) /\ hung' = Waits(Ready(State, d))
    /\ Command /\ UNCHANGED got
ata_close_cmd(d) ==
    /\ Idle /\ usage[d] > 0
    /\ inode' = d /\ Becomes(Release(State, d))
    /\ Command /\ UNCHANGED <<got, hung>>
ata_reset_cmd ==
    /\ Idle /\ Becomes(SetRst(State))
    /\ Command /\ UNCHANGED <<inode, got, hung>>
ata_enable_cmd ==
    /\ Idle /\ inode' = 0 /\ Becomes(EnableHost(ClearRst(State)))
    /\ Command /\ UNCHANGED <<got, hung>>
ata_select_device_cmd(d) ==
    /\ Idle /\ inode' = d
    /\ IF Waits(State) THEN hung' = TRUE /\ UNCHANGED driver ELSE Becomes(SelectDevice(State, d)) /\ UNCHANGED hung
    /\ Command /\ UNCHANGED got
ata_read_sectors_cmd(sector, n) ==
    /\ Idle
    /\ \E o \in Outcomes(State, sector, n) :
           /\ hung' = (o = "hangs")
           /\ IF Waits(State) THEN UNCHANGED driver ELSE Becomes(Requested(State, inode, sector))
           /\ got' = IF o # "ok" THEN None
                     ELSE [asked |-> [i \in 0 .. n - 1 |-> <<inode, sector + i>>], given |-> Sent(sector, n),
                           claimed |-> inode = 0]
    /\ Command /\ UNCHANGED inode

-----------------------------------------------------------------------------
(* The DOS disk: the partition starts at sector 1.                          *)

Start == 1
RootStart == Start + Fats * PerFat + 1
entries_per_cluster == PerCluster * PerSector

\* Mounting reads two sectors; nothing reads the directory yet.
hdbug_mount_cmd(d) ==
    /\ Idle /\ usage[d] < MaxOpens
    /\ Becomes(LET s == ata_open(State, d) IN IF Opens(State, d) THEN Requested(s, d, 0) ELSE s)
    /\ \/ ~Opens(State, d) /\ hung' = Waits(Ready(State, d)) /\ UNCHANGED <<dos, good>>
       \/ /\ Opens(State, d)
          /\ \E o \in {"ok", "error", "hangs"} :
                 /\ hung' = (o = "hangs")
                 /\ dos' = IF o = "ok" THEN [dos EXCEPT !.dev = d, !.ssector = RootStart, !.csector = RootStart,
                                                        !.sentry = 0, !.mounted = TRUE]
                           ELSE dos
                 /\ good' = IF o = "ok" THEN FALSE ELSE good
    /\ commands' = commands + 1 /\ UNCHANGED <<inode, walk, got>>
\* The file system is left, the device stays open.
hdbug_umount_cmd ==
    /\ Idle /\ dos.mounted /\ dos' = [dos EXCEPT !.mounted = FALSE]
    /\ commands' = commands + 1 /\ UNCHANGED <<driver, inode, walk, got, good, hung>>

\* dos_read_cluster, for one outcome o of its request: p.cbuf is the cluster the buffer holds.
dos_read_cluster(p, sector, o) == IF o = "ok" THEN [p EXCEPT !.csector = sector, !.cbuf = sector] ELSE p
\* The entry number goes back before the read, and stays there when it fails.
dos_dir_cluster_reset(p, o) == dos_read_cluster([p EXCEPT !.sentry = 0], p.ssector, o)
\* The next cluster is the one behind this.
dos_dir_cluster_read_nxt(p, o) ==
    LET next == dos_read_cluster(p, p.csector + PerCluster, o)
    IN IF o = "ok" THEN [next EXCEPT !.sentry = @ + entries_per_cluster] ELSE p

Reads(sector, o) == o \in Outcomes(State, sector, PerCluster) /\ hung' = (o = "hangs")
Entry(p, i) == <<p.cbuf, i - p.sentry>>
RightEntry(p, i) == <<p.ssector + (i \div entries_per_cluster) * PerCluster, i % entries_per_cluster>>

\* dir starts at the first cluster; a search does so unless it is there already.
StartWalk(why) ==
    /\ Idle /\ dos.mounted
    /\ walk' = [for |-> why, entry |-> 0]
    /\ IF why = "dir" \/ dos.csector # dos.ssector
       THEN \E o \in {"ok", "error", "hangs"} :
                Reads(dos.ssector, o) /\ dos' = dos_dir_cluster_reset(dos, o) /\ good' = (o = "ok")
       ELSE UNCHANGED <<dos, good, hung>>
    /\ commands' = commands + 1 /\ UNCHANGED <<driver, inode, got>>

WalkTo(i) == walk' = IF walk.for = "dir" /\ i = RootEntries THEN [for |-> "none", entry |-> 0]
                     ELSE [walk EXCEPT !.entry = i]
\* dos_dir_get_entry finds the entry in the buffer.
EntryInBuffer ==
    /\ walk.for # "none" /\ ~hung
    /\ walk.entry < dos.sentry + entries_per_cluster
    /\ got' = [asked |-> RightEntry(dos, walk.entry), given |-> Entry(dos, walk.entry), claimed |-> good]
    /\ WalkTo(walk.entry + 1)
    /\ UNCHANGED <<driver, inode, dos, good, hung, commands>>
\* It is in a later cluster: the search ends, and so does a listing, when that cannot be read.
EntryInNext ==
    /\ walk.for # "none" /\ ~hung
    /\ walk.entry >= dos.sentry + entries_per_cluster
    /\ \E o \in {"ok", "error", "hangs"} :
           /\ Reads(dos.csector + PerCluster, o)
           /\ dos' = dos_dir_cluster_read_nxt(dos, o)
           /\ walk' = IF o = "error" THEN [for |-> "none", entry |-> 0] ELSE walk
    /\ UNCHANGED <<driver, inode, got, good, commands>>

-----------------------------------------------------------------------------

Init ==
    /\ usage = [d \in Device |-> 0] /\ current_pio_mode = 9999
    /\ ctrl = {"RST"} /\ pctr = 0 /\ pftr = [d \in Device |-> 0] /\ dev = 0
    /\ inode = 0
    /\ dos = [mounted |-> FALSE, dev |-> 0, ssector |-> 0, csector |-> 0, sentry |-> 0, cbuf |-> -1]
    /\ walk = [for |-> "none", entry |-> 0] /\ got = None /\ good = FALSE /\ hung = FALSE /\ commands = 0

Atabug ==
    \/ \E d \in Device : ata_open_cmd(d) \/ ata_close_cmd(d) \/ ata_select_device_cmd(d)
    \/ ata_reset_cmd \/ ata_enable_cmd
    \/ \E sector \in 0 .. Sectors - 1, n \in Counts : ata_read_sectors_cmd(sector, n)
Hdbug == (\E d \in Device : hdbug_mount_cmd(d)) \/ hdbug_umount_cmd \/ StartWalk("dir") \/ StartWalk("cd")
Next == Atabug \/ Hdbug \/ EntryInBuffer \/ EntryInNext
Spec == Init /\ [][Next]_vars

-----------------------------------------------------------------------------

\* A request for device 0 that succeeds has read the sectors asked for, in order (ata.c:514-549); an
\* entry handed out is the one asked for, as long as the last return to the start of the
\* directory could be read (dos.c:145-231).
AskedIsGiven == got.claimed => got.asked = got.given
\* Data of an open device are transferred in a mode it supports (ata.c:160-176, 413-419).
TimingSupported == HostType > 1 => \A d \in Device : usage[d] > 0 /\ ~hung => pftr[d] <= Pio[d]
\* What no property claims, for it does not hold: that a reset spares a device in use, and that a
\* request for device 1 reads it.
ResetWhenUnused == "RST" \in ctrl => \A d \in Device : usage[d] = 0
DeviceAsked == got.asked = got.given
=============================================================================
