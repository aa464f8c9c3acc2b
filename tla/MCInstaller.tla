----------------------------- MODULE MCInstaller -----------------------------
(* A small instance of the installer for TLC: two releases, one thing that  *)
(* a service keeps and one edit of the shell's settings.                    *)
EXTENDS Installer

CONSTANTS i1, e1
=============================================================================
