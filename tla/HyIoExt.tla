------------------------------ MODULE HyIoExt ------------------------------
(***************************************************************************)
(* What the devices behind the I/O bus share (src/dev/iobus/ext.hpp): the  *)
(* port that was selected and the word of the last data access.  rw and    *)
(* size are written at every data access before a device looks at them, so *)
(* they are parameters of the actions and not state.                       *)
(***************************************************************************)
EXTENDS HyWords

VARIABLES
    port,       (* ext.port *)
    data        (* ext.data *)

ext == <<port, data>>

(* The word whose bits are all set. *)
Ones == WordMod - 1

(* How many bytes an access of size s takes. *)
Width(s) == <<1, 2, 4, 4>>[s + 1]
=============================================================================
