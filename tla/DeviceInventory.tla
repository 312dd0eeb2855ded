--------------------------- MODULE DeviceInventory ---------------------------
(***************************************************************************)
(* What the integration makes of one device of the account's device table:  *)
(* profiles.py, device_profiles.py and the start of each control platform.  *)
(* A row is the table's entry of the device, a status the state reported    *)
(* for it; both may be absent, and either may be marked as deleted.         *)
(* readable: the state has a battery or a door property.                    *)
(***************************************************************************)
CONSTANTS
    Uid,    \* identities of gateways and of devices with their own Wi-Fi
    NoUid   \* a row or status without an identity

ASSUME InventoryAssumption == NoUid \notin Uid

Rows == [listed: BOOLEAN, deleted: BOOLEAN, uid: Uid \cup {NoUid}]
Statuses == [present: BOOLEAN, deleted: BOOLEAN, readable: BOOLEAN]

\* The platforms that control something.
Platforms(type) ==
    (IF type \in {0, 1, 38, 102, 501, 502, 503} THEN {"light"} ELSE {}) \cup
    (IF type \in {34, 35} THEN {"cover"} ELSE {}) \cup
    (IF type \in {36, 81} THEN {"climate"} ELSE {}) \cup
    (IF type \in {81, 516} THEN {"fan"} ELSE {})

power_only(type, relay) == relay /\ type \in {1, 102}

light_color_mode(type, relay) ==
    IF power_only(type, relay) THEN "onoff"
    ELSE CASE type \in {501, 102} -> "onoff"
           [] type \in {0, 502} -> "brightness"
           [] type \in {1, 38, 503} -> "color_temp"
           [] OTHER -> "onoff"

Readable(status) == status.present /\ status.readable

\* A device of the table is kept when a known gateway has it, when it names
\* none, or when its state can be read.
FromRow(row, status, gateways) ==
    /\ row.listed /\ ~row.deleted
    /\ row.uid \in gateways \cup {NoUid} \/ Readable(status)

\* A device that only reports states is kept when they can be read.
FromStatus(status) == Readable(status) /\ ~status.deleted

Known(row, status, gateways) == FromRow(row, status, gateways) \/ FromStatus(status)

\* The gateway through which a device is controlled: NoUid where it has none,
\* is read-only or is not known.  Row and status name the same one.
Gateway(row, status, gateways) ==
    IF Known(row, status, gateways) /\ row.uid \in gateways THEN row.uid ELSE NoUid
=============================================================================
