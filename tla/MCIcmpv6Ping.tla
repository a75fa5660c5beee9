----------------------------- MODULE MCIcmpv6Ping -----------------------------
EXTENDS Icmpv6Ping
===============================================================================
