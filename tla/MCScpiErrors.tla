---------------------------- MODULE MCScpiErrors ----------------------------
(* A queue of two, so that it overflows, drains by halves and wraps; an    *)
(* event mask, and request masks that enable none or two summary bits.     *)
EXTENDS ScpiErrors

MCErrorCode == {-113}
MCDeviceErrorCode == {5, -113}
MCEventMask == {{"ESR_CER"}}
MCRequestMask == {{}, {"STB_QMA", "STB_QES"}}
=============================================================================
