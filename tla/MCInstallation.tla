--------------------------- MODULE MCInstallation ---------------------------
(* The parts of an installation, each by itself: servers of one release,   *)
(* which may be killed, with an upgrade; servers one after another, with   *)
(* releases installed at any time; preflights; the start of the API.  A    *)
(* behaviour is of one of them, so that they do not multiply.              *)
EXTENDS Preflight, Bootstrap

VARIABLE part       \* the one that moves

everything == <<vars, preflight_vars, boot_vars, part>>

InstallationInit ==
    /\ part \in {"servers", "releases", "preflight", "api"}
    /\ Init /\ PreflightInit /\ BootInit
    /\ (part # "releases" => release = 1)
    /\ (part # "preflight" => on_path /\ package = [e \in Engines |-> 1])
    /\ (part # "api" => schema = "none")

Up == {s \in Servers : server[s].pc \notin {"off", "over"}}

InstallationNext ==
    /\ UNCHANGED part
    /\ \/ /\ part \in {"servers", "releases"} /\ Next /\ UNCHANGED <<preflight_vars, boot_vars>>
          /\ IF part = "servers" THEN release' = release
             ELSE UNCHANGED <<killed, handing, upgrade>> /\ Cardinality(Up') <= 1
       \/ part = "preflight" /\ PreflightNext /\ UNCHANGED boot_vars
       \/ part = "api" /\ BootNext /\ UNCHANGED <<vars, preflight_vars>>

Installation ==
    /\ InstallationInit /\ [][InstallationNext]_everything
    /\ \A s \in Servers : WF_vars(Main(s) \/ Raise(s))
=============================================================================
