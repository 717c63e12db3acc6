----------------------------- MODULE MCAnsible -----------------------------
EXTENDS AnsibleRunner

AllFaults    == {"template", "server", "check", "client"}
ServerFaults == {"check"}
=============================================================================
