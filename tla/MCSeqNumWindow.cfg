CONSTANTS
    Modulus <- MCModulus
    MaxStep <- MCMaxStep
    MaxTrue <- MCMaxTrue
SPECIFICATION Spec
INVARIANT TypeOK
INVARIANT AgreesWithIntegers
