----------------------------- MODULE DeviceList -----------------------------
(***************************************************************************)
(* Making and destroying the list of USB devices (UsbWrappers.c): what     *)
(* memory and which handles each function holds when one of its calls of   *)
(* the system fails. Every such call may fail; the devices themselves are  *)
(* external. A function is the sequence of its calls, each with what it    *)
(* acquires and with what the error branch behind it releases.             *)
(***************************************************************************)
EXTENDS Integers, Sequences, FiniteSets

CONSTANTS
  DeviceCount, \* number of devices SetupDiEnumDeviceInfo returns
  Fields,      \* the strings of a device: manufacturer, productName, serial
  Languages    \* number of languages of each string

ASSUME ListAssumption == DeviceCount \in Nat /\ Languages \in Nat

VARIABLES
  step, device, \* the next function, for which device
  held,         \* resources held, as <<what, language or 0, device>>
  owned,        \* those the list in progress or the finished list refers to
  lost,         \* those nobody refers to any more
  badFree       \* whether something was released that was not held

listVars == <<step, device, held, owned, lost, badFree>>

ListInit ==
  /\ step = "start" /\ device = 0
  /\ held = {} /\ owned = {} /\ lost = {} /\ badFree = FALSE

Of(names) == {<<name, 0, device>> : name \in names}
StringsOf(got) == UNION {{f} \X got[f] \X {device} : f \in Fields}
Global(name) == {<<name, 0, 0>>}

Step(get, undo) == [get |-> get, undo |-> undo, free |-> {}]
Free(names) == [get |-> {}, undo |-> {}, free |-> names]

(* The calls of each function in order, up to its successful return.       *)
DeviceGetPortHub ==
  <<Step({}, {}), Step({"location"}, {}), Step({}, {"location"}),
    Step({}, {"location"}), Free({"location"})>>

GetUsbDeviceHubHandle ==
  <<Step({}, {}), Step({}, {}), Step({"parent_id"}, {}), Step({}, {"parent_id"}),
    Step({"parent_path"}, {"parent_id"}), Step({}, {"parent_id", "parent_path"}),
    Free({"parent_id"}), Step({"hub"}, {"parent_path"}), Free({"parent_path"})>>

SetupDiGetDeviceInterfaceDetailAlloc ==
  <<Step({}, {}), Step({"detail"}, {}), Step({}, {"detail"})>>

GetConnectionInformation ==
  <<Step({"connection"}, {}), Step({}, {"connection"})>>

GetStringDescriptor ==
  <<Step({}, {}), Step({}, {}), Step({}, {}), Step({}, {}), Step({}, {}),
    Step({"node"}, {}), Step({"text"}, {"node"})>>

Got(f, n) == (UNION {f[k].get : k \in 1..n}) \ (UNION {f[k].free : k \in 1..n})

CanFail(f, n) == f[n].free = {}

(* What a string that could not be had leaves behind. *)
FailedString(n) == Got(GetStringDescriptor, n - 1) \ GetStringDescriptor[n].undo

Release(names) ==
  /\ held' = held \ names
  /\ badFree' = (badFree \/ ~(names \subseteq held))

Succeed(f) ==
  /\ held' = held \cup Of(Got(f, Len(f)))
  /\ badFree' = badFree

(* The n-th call fails: what was acquired before it stays but for what the *)
(* branch releases.                                                        *)
FailAt(f, n) ==
  /\ CanFail(f, n)
  /\ held' = held \cup Of(Got(f, n - 1) \ f[n].undo)
  /\ badFree' = (badFree \/ ~(f[n].undo \subseteq Got(f, n - 1)))

-----------------------------------------------------------------------------
(* USBWRAP_CreateUsbDevicesInfoList. *)

GetClassDevs ==
  /\ step = "start"
  /\ \/ step' = "end" /\ UNCHANGED <<device, held>>
     \/ step' = "port" /\ device' = 1 /\ held' = Global("deviceInfo")
  /\ UNCHANGED <<owned, lost, badFree>>

NextDevice == step' = "port" /\ device' = device + 1

(* "continue": what is still held for the device is lost. *)
Continue(names) == NextDevice /\ lost' = lost \cup Of(names)

Call(from, f, to, heldBefore) ==
  /\ step = from /\ device <= DeviceCount
  /\ \/ Succeed(f) /\ step' = to /\ UNCHANGED <<device, lost>>
     \/ \E n \in 1..Len(f) : FailAt(f, n) /\ Continue(heldBefore)
  /\ UNCHANGED owned

(* hub_handle is held from here on; two of the calls may "continue".       *)
EnumInterfaces == Call("interface", <<Step({}, {})>>, "detail", {"hub"})
DetailAlloc == Call("detail", SetupDiGetDeviceInterfaceDetailAlloc, "gather", {"hub"})

(* GetStringDescriptors for one field: a list of at most two nodes, the    *)
(* first one and the last one that could be had. Those in between are lost.*)
Chain(langs) ==
  {l \in langs : (\A m \in langs : l <= m) \/ (\A m \in langs : l >= m)}

(* GatherUsbDeviceInfo. The languages are a string descriptor themselves;  *)
(* without it, or without a string, the field is empty.                    *)
Gather ==
  /\ step = "gather"
  /\ \/ /\ \E n \in 1..Len(GetConnectionInformation) :
             FailAt(GetConnectionInformation, n)
        /\ step' = "free" /\ UNCHANGED <<owned, lost>>
     \/ \E got \in [Fields -> SUBSET (1..Languages)],
           n \in 1..Len(GetStringDescriptor) :
          LET kept == [f \in Fields |-> Chain(got[f])] IN
          /\ step' = "append" /\ badFree' = badFree
          /\ held' = held \cup StringsOf(got) \cup Of(FailedString(n))
          /\ owned' = owned \cup StringsOf(kept)
          /\ lost' = lost \cup (StringsOf(got) \ StringsOf(kept))
  /\ UNCHANGED device

Mine == {r \in owned : r[3] = device}

(* The list grows by realloc; without memory the strings are lost.         *)
AppendInfo ==
  /\ step = "append" /\ step' = "free"
  /\ \/ /\ held' = held \cup Of({"deviceIdentifier"}) \cup Global("list")
        /\ owned' = owned \cup Of({"deviceIdentifier"}) \cup Global("list")
        /\ UNCHANGED lost
     \/ /\ owned' = owned \ Mine /\ lost' = lost \cup Mine
        /\ UNCHANGED held
  /\ UNCHANGED <<device, badFree>>

FreeDevice ==
  /\ step = "free"
  /\ Release(Of({"detail", "hub"}))
  /\ NextDevice
  /\ UNCHANGED <<owned, lost>>

EndOfLoop ==
  /\ step = "port" /\ device > DeviceCount
  /\ step' = "listed" /\ Release(Global("deviceInfo"))
  /\ UNCHANGED <<device, owned, lost>>

\* Mutant: only the first string of each field is freed.
DestroyFirstOnly ==
  /\ step = "listed"
  /\ step' = "end"
  /\ Release({r \in owned : r[2] <= 1})
  /\ owned' = {}
  /\ UNCHANGED <<device, lost>>

(* USBWRAP_DestroyUsbDevicesInfoList, with FreeUsbString for each field.   *)
Destroy ==
  /\ step = "listed"
  /\ step' = "end"
  /\ Release(owned) /\ owned' = {}
  /\ UNCHANGED <<device, lost>>

ListNext ==
  \/ GetClassDevs
  \/ Call("port", DeviceGetPortHub, "hub", {})
  \/ Call("hub", GetUsbDeviceHubHandle, "interface", {})
  \/ EnumInterfaces \/ DetailAlloc
  \/ Gather \/ AppendInfo \/ FreeDevice \/ EndOfLoop \/ Destroy

ListSpec == ListInit /\ [][ListNext]_listVars

-----------------------------------------------------------------------------
(* Properties. *)

(* Whatever fails, nothing is released twice or without being held; and    *)
(* once a list has been made and destroyed, all that remains is what the   *)
(* code is known to lose: the hub handle of a device it skips at one of    *)
(* the two calls after opening it (UsbWrappers.c:620, 627), strings of a   *)
(* third language or when the list cannot grow. No other error path of the *)
(* functions above leaks.                                                  *)
OnlyKnownLosses == ~badFree /\ (step = "end" => held = lost)
=============================================================================
