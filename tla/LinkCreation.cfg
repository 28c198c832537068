SPECIFICATION Spec
CONSTANTS
    Requests = {r1, r2}
    Aliases <- SomeAliases
    Reserved <- ReservedAliases
    Base = 6
    Length = 2
    P1 = 5
    C1 = 7
    P2 = 11
    C2 = 3
    Primes = {2, 3}
    Attempts = 2
    MaxId = 4
    NoAlias = NoAlias
INVARIANTS TypeOK CodesDistinct OnlyAliasesCollide GivesUpOnlyOnAliases
