------------------------- MODULE MCDriverLifecycle -------------------------
\* DriverLifecycle with registries at the limits of what is accepted.
EXTENDS DriverLifecycle

MCRegistries ==
    {[NumberOfUsb20Ports |-> 254, NumberOfUsb30Ports |-> 255,
      ReattachMaxAttempts |-> 2147483647, ReattachFirstDelay |-> 1, ReattachMaxDelay |-> 1],
     [NumberOfUsb20Ports |-> -2, ReattachMaxAttempts |-> 20,
      ReattachFirstDelay |-> 7200, ReattachMaxDelay |-> 2]}
=============================================================================
