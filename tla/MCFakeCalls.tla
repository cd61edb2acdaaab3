----------------------------- MODULE MCFakeCalls -----------------------------
EXTENDS FakeCallsProperties
=============================================================================
