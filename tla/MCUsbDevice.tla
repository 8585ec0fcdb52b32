---------------------------- MODULE MCUsbDevice ----------------------------
(* A host that reads the device descriptor, assigns an address, reads the  *)
(* descriptors that install WinUSB, and selects the configuration.         *)
EXTENDS UsbDevice

Get(value, length) == [type |-> "standard", bRequest |-> "GET_DESCRIPTOR",
                       wValue |-> value, wIndex |-> 0, wLength |-> length]
Set(name, value) == [type |-> "standard", bRequest |-> name, wValue |-> value,
                     wIndex |-> 0, wLength |-> 0]
Ask(name, value, index, length) ==
  [type |-> "vendor", bRequest |-> name, wValue |-> value, wIndex |-> index,
   wLength |-> length]

Enumeration == <<Get(256, 64), Set("SET_ADDRESS", Address),
                 Get(512, 9), Get(768 + 238, 18), Ask("GET_MS_DESCRIPTOR", 0, 4, 16),
                 Set("SET_CONFIGURATION", 1)>>
Use == {Ask("USBLPT_SET_REG", 4, 0, 0), Ask("USBLPT_GET_REG", 1, 0, 1),
        Ask("USBLPT_GET_REG", 4, 0, 1), Ask("USBLPT_GET_VERSION", 0, 0, 8)}
=============================================================================
