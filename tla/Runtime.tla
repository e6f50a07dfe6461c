--------------------------------- MODULE Runtime ---------------------------------
(***************************************************************************)
(* Start and stop of the runtime: DM_Initialize and DM_Finalize (xpcci     *)
(* .cpp), which count their callers, CCI_Init and CCI_Shutdown (cciCOMInit *)
(* .cpp), and the glue through which several parts of a program embed the  *)
(* runtime without knowing of each other (xpcciglue.cpp, cciCOMGlue.cpp).  *)
(***************************************************************************)
EXTENDS Modules

CONSTANTS
  Embedder,
  MaxCount        \* bound on gDaimRefcount, which forced releases let grow

ASSUME EmbedderAssumption == IsFiniteSet(Embedder)

VARIABLES
  gDaimRefcount,
  up,             \* the component manager: down, up, or half started
  glue,           \* of each embedder: closed, opened, initialized
  served          \* those that were answered by a running runtime, and still are in

runtime == <<gDaimRefcount, up, glue, served>>

Init ==
  /\ w = Nothing /\ gDaimRefcount = 0 /\ up = "down"
  /\ glue = [e \in Embedder |-> "closed"] /\ served = {}

-----------------------------------------------------------------------------
(* Only the first caller starts it. When the registry cannot be read the    *)
(* caller is told of an error, and the runtime runs. When CCI_Init fails it *)
(* has published the manager before, and what it has not set (srvmngr) is   *)
(* released all the same: if it was null by chance the program goes on.     *)
DM_Initialize_NotCounted(how) ==
  IF gDaimRefcount >= 1 THEN UNCHANGED <<w, up, gDaimRefcount>>
  ELSE /\ gDaimRefcount' = gDaimRefcount + 1
       /\ up' = (IF how = "fails" THEN "half" ELSE "up")
       /\ w' = (IF how = "fails" THEN Nothing ELSE Started)
DM_Initialize(how) ==
  /\ gDaimRefcount' = gDaimRefcount + 1
  /\ IF gDaimRefcount' >= 2 THEN UNCHANGED <<w, up>>
     ELSE /\ up' = (IF how = "fails" THEN "half" ELSE "up")
          /\ w' = (IF how = "fails" THEN Nothing ELSE Started)

(* Forced, it does not touch the count.                                     *)
DM_Finalize_OnlyLast(force) ==
  LET left == IF force THEN gDaimRefcount ELSE gDaimRefcount - 1
  IN /\ gDaimRefcount' = left
     /\ IF left = 0 THEN up' = "down" /\ w' = IF up = "up" THEN Stopped(w) ELSE w
        ELSE UNCHANGED <<up, w>>
DM_Finalize(force) ==
  LET left == IF force THEN gDaimRefcount ELSE gDaimRefcount - 1
  IN /\ gDaimRefcount' = left
     /\ IF force \/ left = 0
        THEN up' = "down" /\ w' = IF up = "up" THEN Stopped(w) ELSE w
        ELSE UNCHANGED <<up, w>>

-----------------------------------------------------------------------------
(* DM_InitXPCCIGlue. Whatever DM_Initialize answers, it is initialized.     *)
InitGlue(e, how) ==
  /\ glue[e] # "initialized" /\ gDaimRefcount < MaxCount
  /\ CASE how = "no library" -> UNCHANGED <<w, runtime>>
       [] how = "no symbol" ->
            glue' = [glue EXCEPT ![e] = "opened"] /\ UNCHANGED <<w, gDaimRefcount, up, served>>
       [] OTHER ->
            /\ DM_Initialize(how) /\ glue' = [glue EXCEPT ![e] = "initialized"]
            /\ served' = IF up' = "up" /\ (gDaimRefcount > 0 \/ how = "starts")
                         THEN served \cup {e} ELSE served

(* DM_ReleaseXPCCIGlue, by one that is initialized; it is forced by one     *)
(* that knows there is no other. The clients of the runtime have given back *)
(* what they hold when it stops.                                            *)
ReleaseGlue(e, force) ==
  /\ glue[e] = "initialized" /\ w.held = {}
  /\ force => served \subseteq {e}
  /\ DM_Finalize(force)
  /\ glue' = [glue EXCEPT ![e] = "closed"] /\ served' = served \ {e}

Next ==
  \/ \E e \in Embedder :
       \/ \E how \in {"no library", "no symbol", "starts", "no registry", "fails"} : InitGlue(e, how)
       \/ \E force \in BOOLEAN : ReleaseGlue(e, force)
  \/ up = "up" /\ Call /\ UNCHANGED runtime

Spec == Init /\ [][Next]_<<w, runtime>>
-----------------------------------------------------------------------------
(* An embedder that was given a running runtime has it until it releases    *)
(* it, whoever comes and goes meanwhile, fails or forces; and when nobody   *)
(* is in, nothing runs.                                                     *)
Left == \A e \in Embedder : glue[e] # "initialized"
RunsWhileInUse == (served # {} => up = "up") /\ (Left => up = "down")

(* Nor is any module loaded then, whichever release stopped the runtime.    *)
UnloadedAtTheEnd == Left => w.loaded = {}
=============================================================================
