CONSTANT MaxParsed <- MCMaxParsed
INIT Init
NEXT Next
INVARIANT HeldVerifierWithinRfc
